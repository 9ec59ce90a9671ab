-------------------------- MODULE MetricsExportProofs -------------------------
(***************************************************************************)
(* Theorems about MetricsExport for every set of requests and every cap:   *)
(* no point of an export is lost, doubled, moved or filed under another    *)
(* resource, and no piece is larger than the API takes.                    *)
(***************************************************************************)
EXTENDS MetricsExport, FiniteSetTheorems, SequenceTheorems, TLAPS

-----------------------------------------------------------------------------
(* Induction, and definitions by recursion up to a number.                 *)

\* A set of numbers that is not empty has a least member.
LEMMA LeastElement ==
  ASSUME NEW T \in SUBSET Nat, T # {}
  PROVE  \E x \in T : \A y \in T : x <= y
<1> DEFINE R == OpToRel(<, Nat)
<1>1. IsWellFoundedOn(R, Nat)
  BY NatLessThanWellFounded
<1>2. R = {ss \in Nat \X Nat : ss[1] < ss[2]}
  BY DEF OpToRel
<1> HIDE DEF R
<1>3. PICK x \in T : \A y \in T : ~ (<<y, x>> \in R)
  BY <1>1, WFMin
<1>4. \A y \in Nat : <<y, x>> \in R <=> y < x
  BY <1>2
<1>5. ASSUME NEW y \in T PROVE x <= y
  <2>1. x \in Nat /\ y \in Nat /\ ~ (y < x)
    BY <1>3, <1>4
  <2> QED
    BY <2>1
<1> QED
  BY <1>5

\* A set of numbers that holds 0 and the next of each of its members is Nat.
LEMMA SetInduction ==
  ASSUME NEW S \in SUBSET Nat, 0 \in S, \A n \in S : n + 1 \in S
  PROVE  S = Nat
<1> SUFFICES ASSUME Nat \ S # {} PROVE FALSE
  OBVIOUS
<1>1. PICK x \in Nat \ S : \A y \in Nat \ S : x <= y
  BY LeastElement
<1>2. x - 1 \in Nat /\ x - 1 \notin Nat \ S
  BY <1>1
<1> QED
  BY <1>1, <1>2

\* h counts up to n from "first", each value from the one before it.
Unfolds(h, n, first, step) ==
  h[0] = first /\ \A i \in 1..n : h[i] = step[i][h[i - 1]]

\* A recursion has a value at every step, whatever the steps do.
LEMMA UnfoldingExists ==
  ASSUME NEW X, NEW n \in Nat, NEW first \in X, NEW step \in [1..n -> [X -> X]]
  PROVE  \E h \in [0..n -> X] : Unfolds(h, n, first, step)
<1> DEFINE S == {m \in Nat : m <= n => \E h \in [0..m -> X] : Unfolds(h, m, first, step)}
<1>1. 0 \in S
  <2>1. [i \in 0..0 |-> first] \in [0..0 -> X]
    OBVIOUS
  <2>2. Unfolds([i \in 0..0 |-> first], 0, first, step)
    BY DEF Unfolds
  <2> QED
    BY <2>1, <2>2
<1>2. ASSUME NEW m \in S PROVE m + 1 \in S
  <2> SUFFICES ASSUME m + 1 <= n
               PROVE  \E h \in [0..m + 1 -> X] : Unfolds(h, m + 1, first, step)
    OBVIOUS
  <2>1. PICK h \in [0..m -> X] : Unfolds(h, m, first, step)
    BY <1>2
  <2> DEFINE g == [i \in 0..m + 1 |-> IF i = m + 1 THEN step[m + 1][h[m]] ELSE h[i]]
  <2>2. m + 1 \in 1..n /\ h[m] \in X
    BY <2>1
  <2>3. step[m + 1][h[m]] \in X
    BY <2>2
  <2>4. g \in [0..m + 1 -> X]
    BY <2>1, <2>3
  <2>5. ASSUME NEW i \in 1..m + 1 PROVE g[i] = step[i][g[i - 1]]
    <3>1. CASE i = m + 1
      <4>1. g[i - 1] = h[m]
        BY <3>1
      <4> QED
        BY <3>1, <4>1
    <3>2. CASE i # m + 1
      <4>1. i \in 1..m /\ i \in 0..m + 1 /\ i - 1 \in 0..m + 1 /\ i - 1 # m + 1
        BY <3>2
      <4>2. g[i] = h[i] /\ g[i - 1] = h[i - 1]
        BY <4>1
      <4> QED
        BY <2>1, <4>1, <4>2 DEF Unfolds
    <3> QED
      BY <3>1, <3>2
  <2>6. g[0] = first
    BY <2>1 DEF Unfolds
  <2>7. Unfolds(g, m + 1, first, step)
    BY <2>5, <2>6 DEF Unfolds
  <2> QED
    BY <2>4, <2>7
<1>3. S = Nat
  BY <1>1, <1>2, SetInduction
<1> QED
  BY <1>3

-----------------------------------------------------------------------------
(* Sums.                                                                   *)

\* h is the sums of the first members of q.
SumsOf(h, q) == h[0] = 0 /\ \A i \in 1..Len(q) : h[i] = h[i - 1] + q[i]

\* The sums of a sequence are determined by it,
LEMMA SumsUnique ==
  ASSUME NEW q \in Seq(Nat), NEW g, NEW h, SumsOf(g, q), SumsOf(h, q)
  PROVE  \A i \in 0..Len(q) : g[i] = h[i]
<1> DEFINE S == {m \in Nat : m <= Len(q) => g[m] = h[m]}
<1>1. 0 \in S
  BY DEF SumsOf
<1>2. ASSUME NEW m \in S PROVE m + 1 \in S
  <2> SUFFICES ASSUME m + 1 <= Len(q) PROVE g[m + 1] = h[m + 1]
    OBVIOUS
  <2>1. g[m] = h[m] /\ m + 1 \in 1..Len(q) /\ (m + 1) - 1 = m
    BY <1>2
  <2> QED
    BY <2>1 DEF SumsOf
<1>3. S = Nat
  BY <1>1, <1>2, SetInduction
<1> QED
  BY <1>3

\* and every sequence has them.
LEMMA SumsExist ==
  ASSUME NEW q \in Seq(Nat)
  PROVE  \E h \in [0..Len(q) -> Nat] : SumsOf(h, q)
<1> DEFINE step == [i \in 1..Len(q) |-> [k \in Nat |-> k + q[i]]]
<1>1. step \in [1..Len(q) -> [Nat -> Nat]]
  OBVIOUS
<1>2. \A i \in 1..Len(q), k \in Nat : step[i][k] = k + q[i]
  OBVIOUS
<1> HIDE DEF step
<1>3. PICK h \in [0..Len(q) -> Nat] : Unfolds(h, Len(q), 0, step)
  <2>1. 0 \in Nat /\ Len(q) \in Nat
    OBVIOUS
  <2> QED
    BY <1>1, <2>1, UnfoldingExists
<1>4. ASSUME NEW i \in 1..Len(q) PROVE h[i] = h[i - 1] + q[i]
  <2>1. h[i - 1] \in Nat
    BY <1>3
  <2> QED
    BY <1>2, <1>3, <2>1 DEF Unfolds
<1> QED
  BY <1>3, <1>4 DEF SumsOf, Unfolds

\* Sum is the last of the sums.
LEMMA SumBySums ==
  ASSUME NEW q \in Seq(Nat), NEW h \in [0..Len(q) -> Nat], SumsOf(h, q)
  PROVE  Sum(q) = h[Len(q)]
<1> DEFINE Eq(g) == g = [i \in 0..Len(q) |-> IF i = 0 THEN 0 ELSE g[i - 1] + q[i]]
<1>1. Eq(h)
  BY DEF SumsOf
<1> DEFINE sum == CHOOSE g : Eq(g)
<1>2. Eq(sum)
  BY <1>1
<1>3. Sum(q) = sum[Len(q)]
  BY DEF Sum
<1> HIDE DEF sum
<1>4. SumsOf(sum, q)
  BY <1>2 DEF SumsOf
<1> QED
  BY <1>3, <1>4, SumsUnique

\* Sum, at the beginning and one element further.
LEMMA SumEmpty == Sum(<< >>) = 0
<1>1. << >> \in Seq(Nat) /\ Len(<< >>) = 0
  OBVIOUS
<1>2. PICK h \in [0..0 -> Nat] : SumsOf(h, << >>)
  BY <1>1, SumsExist
<1> QED
  BY <1>1, <1>2, SumBySums DEF SumsOf

LEMMA SumAppend ==
  ASSUME NEW q \in Seq(Nat), NEW x \in Nat
  PROVE  Sum(q) \in Nat /\ Sum(Append(q, x)) = Sum(q) + x
<1> DEFINE longer == Append(q, x)
<1>1. PICK h \in [0..Len(q) -> Nat] : SumsOf(h, q)
  BY SumsExist
<1>2. PICK g \in [0..Len(longer) -> Nat] : SumsOf(g, longer)
  BY SumsExist
<1>3. Len(longer) = Len(q) + 1 /\ longer[Len(q) + 1] = x
      /\ \A i \in 1..Len(q) : longer[i] = q[i]
  OBVIOUS
<1>4. SumsOf(g, q)
  BY <1>2, <1>3 DEF SumsOf
<1>5. g[Len(q)] = h[Len(q)]
  BY <1>1, <1>4, SumsUnique
<1>6. g[Len(q) + 1] = g[Len(q)] + x
  <2>1. Len(q) + 1 \in 1..Len(longer) /\ (Len(q) + 1) - 1 = Len(q)
    BY <1>3
  <2> HIDE DEF longer
  <2> QED
    BY <1>2, <1>3, <2>1 DEF SumsOf
<1>7. Sum(q) = h[Len(q)] /\ Sum(longer) = g[Len(q) + 1]
  BY <1>1, <1>2, <1>3, SumBySums
<1> QED
  BY <1>1, <1>5, <1>6, <1>7

-----------------------------------------------------------------------------
(* Flattening.                                                             *)

\* h is the concatenations of the first members of ss.
FlatOf(h, ss) == h[0] = << >> /\ \A i \in 1..Len(ss) : h[i] = h[i - 1] \o ss[i]

\* Every sequence of sequences can be flattened from the left,
LEMMA FlatExists ==
  ASSUME NEW S, NEW ss \in Seq(Seq(S))
  PROVE  \E h \in [0..Len(ss) -> Seq(S)] : FlatOf(h, ss)
<1> DEFINE step == [i \in 1..Len(ss) |-> [s \in Seq(S) |-> s \o ss[i]]]
<1>1. step \in [1..Len(ss) -> [Seq(S) -> Seq(S)]]
  <2>1. ASSUME NEW i \in 1..Len(ss), NEW s \in Seq(S) PROVE s \o ss[i] \in Seq(S)
    <3>1. ss[i] \in Seq(S)
      OBVIOUS
    <3> QED
      BY <3>1, ConcatProperties
  <2> QED
    BY <2>1
<1>2. \A i \in 1..Len(ss), s \in Seq(S) : step[i][s] = s \o ss[i]
  OBVIOUS
<1> HIDE DEF step
<1>3. PICK h \in [0..Len(ss) -> Seq(S)] : Unfolds(h, Len(ss), << >>, step)
  <2>1. << >> \in Seq(S) /\ Len(ss) \in Nat
    OBVIOUS
  <2> QED
    BY <1>1, <2>1, UnfoldingExists
<1>4. ASSUME NEW i \in 1..Len(ss) PROVE h[i] = h[i - 1] \o ss[i]
  <2>1. h[i - 1] \in Seq(S)
    <3>1. i - 1 \in 0..Len(ss)
      BY LenProperties
    <3> QED
      BY <1>3, <3>1
  <2> QED
    BY <1>2, <1>3, <2>1 DEF Unfolds
<1> QED
  BY <1>3, <1>4 DEF FlatOf, Unfolds

\* in one way.
LEMMA FlatUnique ==
  ASSUME NEW ss, Len(ss) \in Nat, NEW g, NEW h, FlatOf(g, ss), FlatOf(h, ss)
  PROVE  \A i \in 0..Len(ss) : g[i] = h[i]
<1> DEFINE S == {m \in Nat : m <= Len(ss) => g[m] = h[m]}
<1>1. 0 \in S
  BY DEF FlatOf
<1>2. ASSUME NEW m \in S PROVE m + 1 \in S
  <2> SUFFICES ASSUME m + 1 <= Len(ss) PROVE g[m + 1] = h[m + 1]
    OBVIOUS
  <2>1. g[m] = h[m] /\ m + 1 \in 1..Len(ss) /\ (m + 1) - 1 = m
    BY <1>2
  <2> QED
    BY <2>1 DEF FlatOf
<1>3. S = Nat
  BY <1>1, <1>2, SetInduction
<1> QED
  BY <1>3

\* FlattenSeq is the last of the concatenations.
LEMMA FlattenByFlat ==
  ASSUME NEW S, NEW ss \in Seq(Seq(S)), NEW h \in [0..Len(ss) -> Seq(S)], FlatOf(h, ss)
  PROVE  FlattenSeq(ss) = h[Len(ss)]
<1>1. CASE Len(ss) = 0
  <2>1. ss = << >>
    BY <1>1, EmptySeq
  <2> QED
    BY <1>1, <2>1 DEF FlattenSeq, FlatOf
<1>2. CASE Len(ss) # 0
  <2> DEFINE Eq(g) == g = [i \in 1..Len(ss) |-> IF i = 1 THEN ss[i] ELSE g[i - 1] \o ss[i]]
             part == [i \in 1..Len(ss) |-> h[i]]
             flatten == CHOOSE g : Eq(g)
  <2>1. Eq(part)
    <3>1. ASSUME NEW i \in 1..Len(ss)
          PROVE  part[i] = IF i = 1 THEN ss[i] ELSE part[i - 1] \o ss[i]
      <4>1. h[i] = h[i - 1] \o ss[i]
        BY DEF FlatOf
      <4>2. CASE i = 1
        <5>1. << >> \o ss[i] = ss[i]
          BY ConcatEmptySeq
        <5>2. h[i - 1] = << >> /\ part[i] = h[i]
          BY <4>2 DEF FlatOf
        <5> QED
          BY <4>1, <4>2, <5>1, <5>2
      <4>3. CASE i # 1
        <5>1. i - 1 \in 1..Len(ss)
          BY <4>3
        <5> QED
          BY <4>1, <4>3, <5>1
      <4> QED
        BY <4>2, <4>3
    <3> QED
      BY <3>1
  <2>2. Eq(flatten)
    BY <2>1
  <2>3. FlattenSeq(ss) = flatten[Len(ss)]
    BY <1>2 DEF FlattenSeq
  <2> HIDE DEF flatten, part
  <2> DEFINE full == [i \in 0..Len(ss) |-> IF i = 0 THEN << >> ELSE flatten[i]]
  <2>4. FlatOf(full, ss)
    <3>1. ASSUME NEW i \in 1..Len(ss) PROVE full[i] = full[i - 1] \o ss[i]
      <4>1. full[i] = flatten[i] /\ i - 1 \in 0..Len(ss)
        OBVIOUS
      <4>2. CASE i = 1
        <5>1. << >> \o ss[i] = ss[i]
          BY ConcatEmptySeq
        <5>2. full[i - 1] = << >> /\ flatten[i] = ss[i]
          BY <2>2, <4>2
        <5> QED
          BY <4>1, <5>1, <5>2
      <4>3. CASE i # 1
        <5>1. full[i - 1] = flatten[i - 1]
          BY <4>1, <4>3
        <5>2. flatten[i] = flatten[i - 1] \o ss[i]
          BY <2>2, <4>3
        <5> QED
          BY <4>1, <5>1, <5>2
      <4> QED
        BY <4>2, <4>3
    <3> HIDE DEF full
    <3>2. full[0] = << >>
      BY DEF full
    <3> QED
      BY <3>1, <3>2 DEF FlatOf
  <2>5. full[Len(ss)] = h[Len(ss)]
    <3> HIDE DEF full
    <3> QED
      BY <2>4, FlatUnique
  <2>6. full[Len(ss)] = flatten[Len(ss)]
    BY <1>2
  <2> QED
    BY <2>3, <2>5, <2>6
<1> QED
  BY <1>1, <1>2

\* FlattenSeq, at the beginning, by type, and one sequence further.
LEMMA FlattenEmpty == FlattenSeq(<< >>) = << >>
BY DEF FlattenSeq

LEMMA FlattenType ==
  ASSUME NEW S, NEW ss \in Seq(Seq(S))
  PROVE  FlattenSeq(ss) \in Seq(S)
<1>1. PICK h \in [0..Len(ss) -> Seq(S)] : FlatOf(h, ss)
  BY FlatExists
<1>2. h[Len(ss)] \in Seq(S)
  <2>1. Len(ss) \in 0..Len(ss)
    BY LenProperties
  <2> QED
    BY <1>1, <2>1
<1> QED
  BY <1>1, <1>2, FlattenByFlat

LEMMA FlattenAppend ==
  ASSUME NEW S, NEW ss \in Seq(Seq(S)), NEW s \in Seq(S)
  PROVE  FlattenSeq(Append(ss, s)) = FlattenSeq(ss) \o s
<1> DEFINE longer == Append(ss, s)
<1>1. PICK h \in [0..Len(ss) -> Seq(S)] : FlatOf(h, ss)
  BY FlatExists
<1>2. longer \in Seq(Seq(S))
  OBVIOUS
<1>3. PICK g \in [0..Len(longer) -> Seq(S)] : FlatOf(g, longer)
  BY <1>2, FlatExists
<1>4. Len(longer) = Len(ss) + 1 /\ longer[Len(ss) + 1] = s
      /\ \A i \in 1..Len(ss) : longer[i] = ss[i]
  OBVIOUS
<1>a. Len(ss) \in Nat
  BY LenProperties
<1> HIDE DEF longer
<1>5. FlatOf(g, ss)
  <2>1. ASSUME NEW i \in 1..Len(ss) PROVE g[i] = g[i - 1] \o ss[i]
    <3>1. i \in 1..Len(longer) /\ longer[i] = ss[i]
      BY <1>4, <1>a
    <3> QED
      BY <1>3, <3>1 DEF FlatOf
  <2> QED
    BY <1>3, <2>1 DEF FlatOf
<1>6. g[Len(ss)] = h[Len(ss)]
  <2>1. \A i \in 0..Len(ss) : g[i] = h[i]
    <3>1. FlatOf(h, ss)
      BY <1>1
    <3> QED
      BY <1>5, <1>a, <3>1, FlatUnique, SMTT(20)
  <2>2. Len(ss) \in 0..Len(ss)
    BY <1>a
  <2> QED
    BY <2>1, <2>2
<1>7. g[Len(ss) + 1] = g[Len(ss)] \o s
  <2>1. Len(ss) + 1 \in 1..Len(longer) /\ (Len(ss) + 1) - 1 = Len(ss)
    BY <1>4, <1>a
  <2> QED
    BY <1>3, <1>4, <2>1 DEF FlatOf
<1>8. FlattenSeq(ss) = h[Len(ss)] /\ FlattenSeq(longer) = g[Len(ss) + 1]
  BY <1>1, <1>2, <1>3, <1>4, FlattenByFlat
<1> QED
  BY <1>6, <1>7, <1>8 DEF longer

-----------------------------------------------------------------------------
(* The invariant.                                                          *)

\* A slice as it may stand in a piece: filed under its metric's own shell.
Slices ==
  {s \in [shell : Nat, ri : Nat, si : Nat, metric : Nat, from : Nat, to : Nat] :
     /\ s.metric \in 1..Len(metrics) /\ s.from <= s.to
     /\ s.ri = metrics[s.metric].ri /\ s.si = metrics[s.metric].si}

TypeOK ==
  /\ metrics \in REQUESTS
  /\ stage \in {"token", "splitting", "sending", "over"}
  /\ mi \in 1..Len(metrics) + 1
  /\ start \in Nat
  /\ current \in Seq(Slices) /\ current_points \in Nat
  /\ cur_ri \in Nat /\ cur_si \in Nat
  /\ pieces \in Seq(Seq(Slices))
  /\ sent \in 0..Len(pieces) /\ received \in Seq(Slices)
  /\ report \in {"none", "error", "rejected", "ok"}

\* Nothing is cut before the loop and nothing is sent before it has ended.
Staged ==
  /\ stage = "token" =>
       /\ mi = 1 /\ start = 0 /\ current = << >> /\ pieces = << >>
       /\ cur_ri = NoShell /\ cur_si = NoShell
  /\ stage \in {"token", "splitting"} => sent = 0 /\ received = << >>
  /\ stage # "over" => report = "none"

\* The points of the metrics before m.
PointsBefore(m) == Sum([i \in 1..m - 1 |-> metrics[i].n])

\* The open piece is counted, and holds all points so far until it is closed
\* for the first time: a request over the cap makes at least one piece.
Counted ==
  /\ current_points = Points(current)
  /\ current_points <= MAX_POINTS_PER_REQUEST
  /\ current # << >> => current_points > 0
  /\ stage = "splitting" =>
       /\ Total > MAX_POINTS_PER_REQUEST
       /\ start <= IF mi <= Len(metrics) THEN metrics[mi].n ELSE 0
       /\ pieces = << >> => current_points = PointsBefore(mi) + start

\* Two slices of a piece share a shell exactly if they are of one scope.
Shelled(piece) ==
  \A j, k \in 1..Len(piece) :
    piece[j].shell = piece[k].shell
      <=> <<piece[j].ri, piece[j].si>> = <<piece[k].ri, piece[k].si>>

\* Its slices are in the order of the request, and a shell has the number of its
\* first slice.
Ordered(piece) ==
  /\ \A j \in 1..Len(piece) : piece[j].shell <= j
  /\ \A j, k \in 1..Len(piece) : j < k => piece[j].metric <= piece[k].metric

\* The open shell of the open piece is that of its last slice.
Filing ==
  /\ Shelled(current) /\ Ordered(current)
  /\ \A j \in 1..Len(current) : current[j].metric <= mi
  /\ IF current = << >> THEN cur_ri = NoShell /\ cur_si = NoShell
     ELSE cur_ri = Last(current).ri /\ cur_si = Last(current).si

AllShelled == \A i \in 1..Len(pieces) : Shelled(pieces[i])

\* All slices cut so far.
CutSoFar == FlattenSeq(pieces) \o current

\* They follow one another up to the point that is cut next.
Cut ==
  stage = "splitting" =>
    /\ Consecutive(CutSoFar)
    /\ IF start > 0
         THEN /\ CutSoFar # << >>
              /\ Last(CutSoFar).metric = mi /\ Last(CutSoFar).to = start
         ELSE /\ ReachesEndOf(CutSoFar, mi - 1)
              /\ CutSoFar # << >> => Last(CutSoFar).metric < mi

\* What is sent is cut at the end of a piece.
Upto(k) == FlattenSeq(SubSeq(pieces, 1, k))

SentWhole ==
  /\ \A k \in 0..Len(pieces) : Consecutive(Upto(k))
  /\ stage = "sending" =>
       received = Upto(sent) /\ ReachesEndOf(FlattenSeq(pieces), Len(metrics))

MInv ==
  /\ TypeOK /\ Staged
  /\ Counted /\ PiecesFit
  /\ Filing /\ AllShelled
  /\ Cut /\ SentWhole /\ ArrivesInOrder

-----------------------------------------------------------------------------
(* Facts about requests, slices and pieces.                                *)

\* What a request is (RequestsAssumption).
LEMMA MetricsTyped ==
  ASSUME metrics \in REQUESTS
  PROVE  /\ Len(metrics) \in Nat
         /\ \A i \in 1..Len(metrics) :
              /\ metrics[i].n \in Nat
              /\ metrics[i].ri \in Nat \ {NoShell} /\ metrics[i].si \in Nat \ {NoShell}
         /\ \A i, j \in 1..Len(metrics) : i < j => NotAfter(metrics[i], metrics[j])
<1> DEFINE Metric == [ri : Nat \ {NoShell}, si : Nat \ {NoShell}, n : Nat]
<1>1. metrics \in Seq(Metric)
  BY RequestsAssumption
<1>2. \A i \in 1..Len(metrics) : metrics[i] \in Metric
  <2> HIDE DEF Metric
  <2> QED
    BY <1>1
<1> QED
  BY <1>1, <1>2, RequestsAssumption

\* The points of a piece, at the beginning, by type, and one slice further.
LEMMA PointsEmpty == Points(<< >>) = 0
<1>1. [i \in 1..Len(<< >>) |-> << >>[i].to - << >>[i].from] = << >>
  OBVIOUS
<1> QED
  BY <1>1, SumEmpty DEF Points

LEMMA PointsTyped ==
  ASSUME NEW piece \in Seq(Slices)
  PROVE  Points(piece) \in Nat
<1> DEFINE counts == [i \in 1..Len(piece) |-> piece[i].to - piece[i].from]
<1>1. counts \in Seq(Nat)
  <2>1. \A t \in Slices : t.to - t.from \in Nat
    BY DEF Slices
  <2>2. \A i \in 1..Len(piece) : piece[i] \in Slices
    OBVIOUS
  <2> QED
    BY <2>1, <2>2
<1> QED
  BY <1>1, SumAppend DEF Points

LEMMA PointsAppend ==
  ASSUME NEW piece \in Seq(Slices), NEW s \in Slices
  PROVE  /\ Points(piece) \in Nat
         /\ Points(Append(piece, s)) = Points(piece) + (s.to - s.from)
<1> DEFINE counts == [i \in 1..Len(piece) |-> piece[i].to - piece[i].from]
           longer == Append(piece, s)
<1>1. counts \in Seq(Nat) /\ s.to - s.from \in Nat
  <2>1. \A t \in Slices : t.to - t.from \in Nat
    BY DEF Slices
  <2>2. \A i \in 1..Len(piece) : piece[i] \in Slices
    OBVIOUS
  <2> QED
    BY <2>1, <2>2
<1>2. [i \in 1..Len(longer) |-> longer[i].to - longer[i].from] = Append(counts, s.to - s.from)
  <2>1. Len(longer) = Len(piece) + 1 /\ longer[Len(piece) + 1] = s
        /\ \A i \in 1..Len(piece) : longer[i] = piece[i]
    OBVIOUS
  <2>2. Append(counts, s.to - s.from)
          = [i \in 1..Len(piece) + 1 |-> IF i = Len(piece) + 1 THEN s.to - s.from ELSE counts[i]]
    BY <1>1
  <2> QED
    BY <2>1, <2>2
<1> QED
  BY <1>1, <1>2, SumAppend DEF Points

\* The points before a metric, one metric further, and at both ends.
LEMMA PointsBeforeStep ==
  ASSUME metrics \in REQUESTS, NEW m \in 1..Len(metrics)
  PROVE  /\ PointsBefore(m) \in Nat
         /\ PointsBefore(m + 1) = PointsBefore(m) + metrics[m].n
<1> DEFINE counts == [i \in 1..m - 1 |-> metrics[i].n]
<1>1. counts \in Seq(Nat) /\ Len(counts) = m - 1 /\ metrics[m].n \in Nat
  <2>1. \A i \in 1..m - 1 : metrics[i].n \in Nat
    BY MetricsTyped
  <2> QED
    BY <2>1, MetricsTyped
<1>2. [i \in 1..(m + 1) - 1 |-> metrics[i].n] = Append(counts, metrics[m].n)
  <2>1. Append(counts, metrics[m].n)
          = [i \in 1..m |-> IF i = m THEN metrics[m].n ELSE counts[i]]
    BY <1>1
  <2> QED
    BY <2>1
<1> QED
  BY <1>1, <1>2, SumAppend DEF PointsBefore

LEMMA PointsBeforeFirst == PointsBefore(1) = 0
<1>1. [i \in 1..1 - 1 |-> metrics[i].n] = << >>
  OBVIOUS
<1> QED
  BY <1>1, SumEmpty DEF PointsBefore

LEMMA PointsBeforeAll ==
  ASSUME metrics \in REQUESTS
  PROVE  PointsBefore(Len(metrics) + 1) = Total
<1>1. (Len(metrics) + 1) - 1 = Len(metrics)
  BY MetricsTyped
<1> QED
  BY <1>1 DEF PointsBefore, Total

\* b may come next after the slices.
Follows(slices, b) ==
  IF slices = << >> THEN b.from = 0 /\ Empty(1..b.metric - 1)
  ELSE IF Last(slices).metric = b.metric THEN Last(slices).to = b.from
  ELSE /\ Last(slices).to = metrics[Last(slices).metric].n /\ b.from = 0
       /\ Last(slices).metric < b.metric
       /\ Empty(Last(slices).metric + 1..b.metric - 1)

\* A slice that begins where the last one ended continues them.
LEMMA ConsecutiveAppend ==
  ASSUME NEW slices \in Seq(Slices), NEW b \in Slices,
         Consecutive(slices), Follows(slices, b)
  PROVE  Consecutive(Append(slices, b))
<1> DEFINE longer == Append(slices, b)
<1>1. Len(longer) = Len(slices) + 1 /\ longer[Len(slices) + 1] = b
      /\ (\A i \in 1..Len(slices) : longer[i] = slices[i]) /\ Len(slices) \in Nat
  OBVIOUS
<1> HIDE DEF longer
<1>2. ASSUME NEW i \in 1..Len(longer), i # Len(slices) + 1
      PROVE  IF i = 1 THEN longer[i].from = 0 /\ Empty(1..longer[i].metric - 1)
             ELSE IF longer[i - 1].metric = longer[i].metric
               THEN longer[i - 1].to = longer[i].from
             ELSE /\ longer[i - 1].to = metrics[longer[i - 1].metric].n
                  /\ longer[i].from = 0
                  /\ longer[i - 1].metric < longer[i].metric
                  /\ Empty(longer[i - 1].metric + 1..longer[i].metric - 1)
  <2>1. i \in 1..Len(slices) /\ longer[i] = slices[i]
        /\ (i # 1 => longer[i - 1] = slices[i - 1])
    BY <1>1, <1>2
  <2> QED
    BY <2>1 DEF Consecutive
<1>3. ASSUME NEW i \in 1..Len(longer), i = Len(slices) + 1
      PROVE  IF i = 1 THEN longer[i].from = 0 /\ Empty(1..longer[i].metric - 1)
             ELSE IF longer[i - 1].metric = longer[i].metric
               THEN longer[i - 1].to = longer[i].from
             ELSE /\ longer[i - 1].to = metrics[longer[i - 1].metric].n
                  /\ longer[i].from = 0
                  /\ longer[i - 1].metric < longer[i].metric
                  /\ Empty(longer[i - 1].metric + 1..longer[i].metric - 1)
  <2>1. longer[i] = b
    BY <1>1, <1>3
  <2>2. CASE i = 1
    <3>1. slices = << >>
      BY <1>1, <1>3, <2>2, EmptySeq
    <3> QED
      BY <2>1, <2>2, <3>1 DEF Follows
  <2>3. CASE i # 1
    <3>1. slices # << >> /\ longer[i - 1] = Last(slices)
      BY <1>1, <1>3, <2>3 DEF Last
    <3> QED
      BY <2>1, <2>3, <3>1 DEF Follows
  <2> QED
    BY <2>2, <2>3
<1> QED
  BY <1>2, <1>3 DEF Consecutive, longer

-----------------------------------------------------------------------------
(* The request as it came.                                                 *)

\* The first metric filed with metric i.
First(i) == Whole[i].shell

\* A shell that was not cut has a first metric, which names it.
LEMMA FirstOfShell ==
  ASSUME metrics \in REQUESTS, NEW i \in 1..Len(metrics)
  PROVE  /\ First(i) \in 1..i
         /\ metrics[First(i)].ri = metrics[i].ri /\ metrics[First(i)].si = metrics[i].si
         /\ \A k \in 1..First(i) - 1 :
              <<metrics[k].ri, metrics[k].si>> # <<metrics[i].ri, metrics[i].si>>
<1> DEFINE Same == {j \in 1..i : metrics[j].ri = metrics[i].ri /\ metrics[j].si = metrics[i].si}
           Fits(j) == /\ metrics[j].ri = metrics[i].ri /\ metrics[j].si = metrics[i].si
                      /\ \A k \in 1..j - 1 :
                           <<metrics[k].ri, metrics[k].si>> # <<metrics[i].ri, metrics[i].si>>
<1>1. Same \subseteq Nat /\ i \in Same
  BY MetricsTyped
<1>2. PICK j \in Same : \A k \in Same : j <= k
  BY <1>1, LeastElement
<1>3. ASSUME NEW k \in 1..j - 1
      PROVE  <<metrics[k].ri, metrics[k].si>> # <<metrics[i].ri, metrics[i].si>>
  <2>1. k \in 1..i /\ k < j
    BY <1>2
  <2>2. k \notin Same
    BY <1>1, <1>2, <2>1
  <2> QED
    BY <2>1, <2>2
<1>4. \E l \in 1..i : Fits(l)
  BY <1>2, <1>3
<1>5. First(i) = CHOOSE l \in 1..i : Fits(l)
  BY DEF First, Whole, Filed
<1> HIDE DEF Fits
<1>6. First(i) \in 1..i /\ Fits(First(i))
  BY <1>4, <1>5
<1> QED
  BY <1>6 DEF Fits

\* A request that goes out as it came is one good piece.
LEMMA WholeIsShelled ==
  ASSUME metrics \in REQUESTS
  PROVE  Shelled(Whole)
<1>1. Len(Whole) = Len(metrics)
      /\ \A i \in 1..Len(metrics) : /\ Whole[i].ri = metrics[i].ri
                                    /\ Whole[i].si = metrics[i].si
                                    /\ Whole[i].shell = First(i)
  BY MetricsTyped DEF Whole, Filed, First
<1> SUFFICES ASSUME NEW j \in 1..Len(metrics), NEW k \in 1..Len(metrics)
             PROVE  First(j) = First(k)
                      <=> metrics[j].ri = metrics[k].ri /\ metrics[j].si = metrics[k].si
  BY <1>1 DEF Shelled
<1>2. First(j) = First(k) => metrics[j].ri = metrics[k].ri /\ metrics[j].si = metrics[k].si
  BY FirstOfShell
<1>3. ASSUME metrics[j].ri = metrics[k].ri, metrics[j].si = metrics[k].si
      PROVE  First(j) = First(k)
  <2>1. /\ First(j) \in 1..j /\ First(k) \in 1..k
        /\ metrics[First(j)].ri = metrics[k].ri /\ metrics[First(j)].si = metrics[k].si
        /\ metrics[First(k)].ri = metrics[j].ri /\ metrics[First(k)].si = metrics[j].si
    BY <1>3, FirstOfShell
  <2>2. First(j) \notin 1..First(k) - 1
    BY <2>1, FirstOfShell
  <2>3. First(k) \notin 1..First(j) - 1
    BY <2>1, FirstOfShell
  <2> QED
    BY <2>1, <2>2, <2>3, MetricsTyped
<1> QED
  BY <1>2, <1>3

LEMMA WholeIsRight ==
  ASSUME metrics \in REQUESTS
  PROVE  /\ Whole \in Seq(Slices)
         /\ Points(Whole) = Total
         /\ Consecutive(Whole) /\ ReachesEndOf(Whole, Len(metrics))
<1>1. Len(Whole) = Len(metrics) /\ Len(metrics) \in Nat
      /\ \A i \in 1..Len(metrics) : /\ Whole[i].ri = metrics[i].ri
                                    /\ Whole[i].si = metrics[i].si
                                    /\ Whole[i].metric = i
                                    /\ Whole[i].from = 0 /\ Whole[i].to = metrics[i].n
  BY MetricsTyped DEF Whole, Filed
<1>2. Whole \in Seq(Slices)
  <2>1. ASSUME NEW i \in 1..Len(metrics) PROVE Whole[i] \in Slices
    <3>1. Whole[i] = Filed(First(i), metrics[i].ri, metrics[i].si, i, 0, metrics[i].n)
      BY DEF Whole, First, Filed
    <3>2. First(i) \in Nat /\ metrics[i].n \in Nat /\ metrics[i].ri \in Nat
          /\ metrics[i].si \in Nat /\ i \in Nat
      BY MetricsTyped, FirstOfShell
    <3> QED
      BY <3>1, <3>2 DEF Filed, Slices
  <2>2. Whole = [i \in 1..Len(metrics) |-> Whole[i]]
    BY DEF Whole
  <2> QED
    BY <1>1, <2>1, <2>2
<1>3. Points(Whole) = Total
  <2>1. \A i \in 1..Len(metrics) : Whole[i].to - Whole[i].from = metrics[i].n
    BY <1>1, MetricsTyped
  <2>2. [i \in 1..Len(Whole) |-> Whole[i].to - Whole[i].from]
          = [i \in 1..Len(metrics) |-> metrics[i].n]
    BY <1>1, <2>1
  <2> QED
    BY <2>2 DEF Points, Total
<1>4. Consecutive(Whole)
  <2> SUFFICES ASSUME NEW i \in 1..Len(metrics)
               PROVE  IF i = 1 THEN Whole[i].from = 0 /\ Empty(1..Whole[i].metric - 1)
                      ELSE IF Whole[i - 1].metric = Whole[i].metric
                        THEN Whole[i - 1].to = Whole[i].from
                      ELSE /\ Whole[i - 1].to = metrics[Whole[i - 1].metric].n
                           /\ Whole[i].from = 0
                           /\ Whole[i - 1].metric < Whole[i].metric
                           /\ Empty(Whole[i - 1].metric + 1..Whole[i].metric - 1)
    BY <1>1 DEF Consecutive
  <2>1. CASE i = 1
    BY <1>1, <2>1 DEF Empty
  <2>2. CASE i # 1
    <3>1. i - 1 \in 1..Len(metrics) /\ (i - 1) + 1 > i - 1
      BY <1>1, <2>2
    <3> QED
      BY <1>1, <2>2, <3>1 DEF Empty
  <2> QED
    BY <2>1, <2>2
<1>5. ReachesEndOf(Whole, Len(metrics))
  <2>1. CASE Len(metrics) = 0
    BY <1>1, <1>2, <2>1, EmptySeq DEF ReachesEndOf, Empty
  <2>2. CASE Len(metrics) # 0
    <3>1. Whole # << >> /\ Len(metrics) \in 1..Len(metrics)
      BY <1>1, <2>2
    <3> QED
      BY <1>1, <3>1 DEF ReachesEndOf, Empty, Last
  <2> QED
    BY <2>1, <2>2
<1> QED
  BY <1>2, <1>3, <1>4, <1>5

-----------------------------------------------------------------------------
(* Beginnings of the pieces.                                               *)

\* The beginnings of the pieces: none of them, all of them, one more.
LEMMA UptoNone ==
  ASSUME NEW ss
  PROVE  FlattenSeq(SubSeq(ss, 1, 0)) = << >>
<1>1. SubSeq(ss, 1, 0) = << >>
  BY SubSeqEmpty
<1> QED
  BY <1>1, FlattenEmpty

LEMMA UptoAll ==
  ASSUME NEW S, NEW ss \in Seq(Seq(S))
  PROVE  FlattenSeq(SubSeq(ss, 1, Len(ss))) = FlattenSeq(ss)
<1>1. SubSeq(ss, 1, Len(ss)) = ss
  BY SubSeqFull
<1> QED
  BY <1>1

LEMMA BeginningTyped ==
  ASSUME NEW T, NEW ss \in Seq(T), NEW k \in 0..Len(ss)
  PROVE  SubSeq(ss, 1, k) \in Seq(T)
<1>1. Len(ss) \in Nat /\ \A i \in 1..k : ss[i] \in T
  BY LenProperties
<1> QED
  BY <1>1, SubSeqProperties

\* One piece more.
LEMMA UptoNext ==
  ASSUME NEW S, NEW ss \in Seq(Seq(S)), NEW k \in 0..Len(ss) - 1
  PROVE  /\ FlattenSeq(SubSeq(ss, 1, k)) \in Seq(S) /\ ss[k + 1] \in Seq(S)
         /\ FlattenSeq(SubSeq(ss, 1, k + 1)) = FlattenSeq(SubSeq(ss, 1, k)) \o ss[k + 1]
<1> DEFINE T == Seq(S)
<1>1. Len(ss) \in Nat /\ k \in 0..Len(ss) /\ k + 1 \in 1..Len(ss) /\ k \in Nat
  BY LenProperties
<1>2. ss \in Seq(T)
  OBVIOUS
<1> HIDE DEF T
<1>3. ss[k + 1] \in T
  BY <1>1, <1>2
<1>4. SubSeq(ss, 1, k) \in Seq(T)
  BY <1>1, <1>2, BeginningTyped
<1>5. SubSeq(ss, 1, k + 1) = Append(SubSeq(ss, 1, k), ss[k + 1])
  <2>1. SubSeq(ss, 1, k + 1) = SubSeq(ss, 1, (k + 1) - 1) \o << ss[k + 1] >>
    <3>1. 1 \in 1..Len(ss) /\ k + 1 \in 1..Len(ss)
      BY <1>1
    <3> QED
      BY <3>1, <1>2, SubSeqRecursiveSecond
  <2>2. (k + 1) - 1 = k
    BY <1>1
  <2>3. SubSeq(ss, 1, k) \o << ss[k + 1] >> = Append(SubSeq(ss, 1, k), ss[k + 1])
    BY <1>3, <1>4, AppendIsConcat
  <2> QED
    BY <2>1, <2>2, <2>3
<1> QED
  BY <1>3, <1>4, <1>5, FlattenAppend, FlattenType DEF T

\* A piece at the end changes nothing before it.
LEMMA UptoOfLonger ==
  ASSUME NEW S, NEW ss \in Seq(Seq(S)), NEW s \in Seq(S), NEW k \in 0..Len(ss)
  PROVE  SubSeq(Append(ss, s), 1, k) = SubSeq(ss, 1, k)
<1> DEFINE T == Seq(S)
           longer == Append(ss, s)
<1>1. /\ ss \in Seq(T) /\ s \in T /\ longer \in Seq(T) /\ Len(longer) = Len(ss) + 1
      /\ Len(ss) \in Nat
      /\ \A i \in 1..Len(ss) : longer[i] = ss[i]
  BY LenProperties
<1> HIDE DEF T, longer
<1>2. \A i \in 1..k : ss[i] \in T /\ longer[i] \in T /\ longer[i] = ss[i]
  BY <1>1
<1>3. /\ SubSeq(ss, 1, k) \in Seq(T) /\ SubSeq(longer, 1, k) \in Seq(T)
      /\ Len(SubSeq(ss, 1, k)) = k /\ Len(SubSeq(longer, 1, k)) = k
      /\ \A i \in 1..k : SubSeq(ss, 1, k)[i] = ss[i] /\ SubSeq(longer, 1, k)[i] = longer[i]
  <2>1. k \in Int /\ k - 1 + 1 = k /\ \A i \in 1..k : 1 + i - 1 = i
    OBVIOUS
  <2>2. /\ SubSeq(ss, 1, k) \in Seq(T)
        /\ Len(SubSeq(ss, 1, k)) = IF 1 <= k THEN k - 1 + 1 ELSE 0
        /\ \A i \in 1..k - 1 + 1 : SubSeq(ss, 1, k)[i] = ss[1 + i - 1]
    BY <1>2, <2>1, SubSeqProperties
  <2>3. /\ SubSeq(longer, 1, k) \in Seq(T)
        /\ Len(SubSeq(longer, 1, k)) = IF 1 <= k THEN k - 1 + 1 ELSE 0
        /\ \A i \in 1..k - 1 + 1 : SubSeq(longer, 1, k)[i] = longer[1 + i - 1]
    BY <1>2, <2>1, SubSeqProperties
  <2> QED
    BY <2>1, <2>2, <2>3
<1>4. SubSeq(longer, 1, k) = SubSeq(ss, 1, k)
  BY <1>2, <1>3, SeqEqual
<1> QED
  BY <1>4 DEF longer

\* What was cut is slices.
LEMMA CutSoFarTyped ==
  ASSUME TypeOK
  PROVE  FlattenSeq(pieces) \in Seq(Slices) /\ CutSoFar \in Seq(Slices)
<1>1. FlattenSeq(pieces) \in Seq(Slices)
  BY FlattenType DEF TypeOK
<1> QED
  BY <1>1, ConcatProperties DEF TypeOK, CutSoFar

-----------------------------------------------------------------------------
(* Cutting a slice.                                                        *)

\* What CutSlice does, for the properties: the slice b goes into the open piece,
\* or into a new one when the open one is closed for it.
Takes(b, base) ==
  /\ b.metric = mi /\ b.from = start /\ b.to = start'
  /\ start < start' /\ start' <= metrics[mi].n
  /\ current' = Append(base, b)
  /\ b.shell = IF base # << >> /\ Last(base).ri = b.ri /\ Last(base).si = b.si
                 THEN Last(base).shell ELSE Len(base) + 1
  /\ \/ /\ base = current /\ pieces' = pieces
        /\ current_points' = current_points + (b.to - b.from)
     \/ /\ base = << >> /\ current # << >> /\ pieces' = Append(pieces, current)
        /\ current_points' = b.to - b.from
  /\ current_points' <= MAX_POINTS_PER_REQUEST

\* CutSlice takes exactly one slice, from the point it stands at.
LEMMA CutSliceEffect ==
  ASSUME TypeOK, Staged, Counted, Filing, CutSlice
  PROVE  /\ \E b \in Slices, base \in Seq(Slices) : Takes(b, base)
         /\ stage = "splitting" /\ mi \in 1..Len(metrics) /\ start' \in Nat
         /\ cur_ri' = metrics[mi].ri /\ cur_si' = metrics[mi].si
         /\ current_points' \in Nat
         /\ UNCHANGED <<metrics, stage, mi, sent, received, report>>
<1> DEFINE m == metrics[mi]
           end == IF start + MAX_POINTS_PER_REQUEST < m.n
                    THEN start + MAX_POINTS_PER_REQUEST ELSE m.n
           full == Full(end - start)
           base == IF full THEN << >> ELSE current
           ri == IF full THEN NoShell ELSE cur_ri
           si == IF full THEN NoShell ELSE cur_si
           same == SameShell(m, ri, si)
           open == Last(base)
           b == IF same THEN Filed(open.shell, open.ri, open.si, mi, start, end)
                ELSE Filed(Len(base) + 1, m.ri, m.si, mi, start, end)
<1>1. /\ stage = "splitting" /\ mi <= Len(metrics) /\ start < m.n
      /\ pieces' = IF full THEN Append(pieces, current) ELSE pieces
      /\ current' = File(base, mi, start, end, same)
      /\ current_points' = (IF full THEN 0 ELSE current_points) + (end - start)
      /\ cur_ri' = m.ri /\ cur_si' = m.si
      /\ start' = end
      /\ UNCHANGED <<metrics, stage, mi, sent, received, report>>
  BY DEF CutSlice, sendVars
<1>2. /\ mi \in 1..Len(metrics) /\ start \in Nat /\ current_points \in Nat
      /\ current \in Seq(Slices)
      /\ m.n \in Nat /\ m.ri \in Nat \ {NoShell} /\ m.si \in Nat \ {NoShell}
  <2>1. metrics \in REQUESTS /\ mi \in 1..Len(metrics) + 1 /\ Len(metrics) \in Nat
    BY MetricsTyped DEF TypeOK
  <2>2. mi \in 1..Len(metrics)
    BY <1>1, <2>1
  <2>3. start \in Nat /\ current_points \in Nat /\ current \in Seq(Slices)
    BY DEF TypeOK
  <2> QED
    BY <2>1, <2>2, <2>3, MetricsTyped
<1>3. /\ end \in Nat /\ start < end /\ end <= m.n
      /\ end - start \in 1..MAX_POINTS_PER_REQUEST
  <2>1. /\ start \in Nat /\ m.n \in Nat /\ start < m.n
        /\ MAX_POINTS_PER_REQUEST \in Nat \ {0}
    BY <1>1, <1>2, CapAssumption
  <2> HIDE DEF m
  <2>2. CASE start + MAX_POINTS_PER_REQUEST < m.n
    BY <2>1, <2>2
  <2>3. CASE ~ (start + MAX_POINTS_PER_REQUEST < m.n)
    BY <2>1, <2>3
  <2> QED
    BY <2>2, <2>3
<1>4. base \in Seq(Slices)
  BY <1>2
<1>5. same => base # << >> /\ open.ri = m.ri /\ open.si = m.si
  <2> SUFFICES ASSUME same PROVE base # << >> /\ open.ri = m.ri /\ open.si = m.si
    OBVIOUS
  <2>1. ~ full /\ cur_ri = m.ri /\ cur_si = m.si
    BY <1>2 DEF SameShell
  <2>2. current # << >>
    BY <1>2, <2>1 DEF Filing
  <2> QED
    BY <2>1, <2>2 DEF Filing
<1>6. ~ same => ~ (base # << >> /\ open.ri = m.ri /\ open.si = m.si)
  <2> SUFFICES ASSUME base # << >>, open.ri = m.ri, open.si = m.si PROVE same
    OBVIOUS
  <2>1. ~ full /\ current # << >>
    OBVIOUS
  <2> QED
    BY <2>1 DEF Filing, SameShell
<1>7. current' = Append(base, b)
  BY <1>1 DEF File
<1>8. /\ b.metric = mi /\ b.from = start /\ b.to = end /\ b.ri = m.ri /\ b.si = m.si
      /\ b.shell = IF same THEN open.shell ELSE Len(base) + 1
  BY <1>5 DEF Filed
<1>9. b.shell \in Nat
  <2>1. CASE same
    <3>1. open \in Slices
      BY <1>4, <1>5, <2>1 DEF Last
    <3> QED
      BY <1>8, <2>1, <3>1 DEF Slices
  <2>2. CASE ~ same
    BY <1>4, <1>8, <2>2
  <2> QED
    BY <2>1, <2>2
<1>10. b \in [shell : Nat, ri : Nat, si : Nat, metric : Nat, from : Nat, to : Nat]
  BY <1>2, <1>3, <1>5, <1>8, <1>9 DEF Filed
<1>11. b \in Slices
  <2> HIDE DEF b, end
  <2>1. b.metric \in 1..Len(metrics) /\ b.from <= b.to
    BY <1>2, <1>3, <1>8
  <2>2. b.ri = metrics[b.metric].ri /\ b.si = metrics[b.metric].si
    BY <1>8
  <2> QED
    BY <1>10, <2>1, <2>2 DEF Slices
<1>12. \/ /\ base = current /\ pieces' = pieces
          /\ current_points' = current_points + (end - start)
       \/ /\ base = << >> /\ current # << >> /\ pieces' = Append(pieces, current)
          /\ current_points' = end - start
  <2>1. CASE full
    <3>1. current # << >>
      BY <2>1, PointsEmpty DEF Full, Counted
    <3> QED
      BY <1>1, <1>3, <2>1, <3>1
  <2>2. CASE ~ full
    BY <1>1, <2>2
  <2> QED
    BY <2>1, <2>2
<1>13. current_points' \in Nat /\ current_points' <= MAX_POINTS_PER_REQUEST
  <2>1. CASE full
    BY <1>1, <1>3, <2>1, CapAssumption
  <2>2. CASE ~ full
    <3>1. \/ current_points + (end - start) <= MAX_POINTS_PER_REQUEST
          \/ current_points = 0
      BY <1>2, <1>3, <2>2, CapAssumption DEF Full
    <3>2. current_points' = current_points + (end - start)
      BY <1>1, <2>2
    <3> HIDE DEF end
    <3> QED
      BY <1>2, <1>3, <3>1, <3>2, CapAssumption
  <2> QED
    BY <2>1, <2>2
<1> HIDE DEF b, base, same, full, end, ri, si
<1>14. Takes(b, base)
  BY <1>1, <1>3, <1>5, <1>6, <1>7, <1>8, <1>12, <1>13 DEF Takes
<1> QED
  BY <1>1, <1>2, <1>3, <1>4, <1>11, <1>13, <1>14

\* The open piece becomes the last of the ready ones.
LEMMA Close ==
  ASSUME MInv, stage = "splitting", current # << >>, NEW p, p = Append(pieces, current)
  PROVE  /\ p \in Seq(Seq(Slices)) /\ Len(p) = Len(pieces) + 1
         /\ FlattenSeq(p) = CutSoFar
         /\ \A i \in 1..Len(p) : /\ Points(p[i]) <= MAX_POINTS_PER_REQUEST
                                 /\ Points(p[i]) > 0 \/ Total = 0
                                 /\ Shelled(p[i])
         /\ \A k \in 0..Len(p) : Consecutive(FlattenSeq(SubSeq(p, 1, k)))
<1>1. TypeOK /\ Counted /\ PiecesFit /\ Filing /\ AllShelled /\ Cut /\ SentWhole
  BY DEF MInv
<1>2. /\ p \in Seq(Seq(Slices)) /\ Len(p) = Len(pieces) + 1 /\ Len(pieces) \in Nat
      /\ p[Len(pieces) + 1] = current /\ \A i \in 1..Len(pieces) : p[i] = pieces[i]
  BY <1>1 DEF TypeOK
<1>3. FlattenSeq(p) = CutSoFar
  BY <1>1, FlattenAppend DEF TypeOK, CutSoFar
<1>4. \A k \in 0..Len(pieces) : SubSeq(p, 1, k) = SubSeq(pieces, 1, k)
  BY <1>1, UptoOfLonger DEF TypeOK
<1>5. FlattenSeq(SubSeq(p, 1, Len(p))) = CutSoFar
  BY <1>2, <1>3, UptoAll
<1>6. ASSUME NEW i \in 1..Len(p)
      PROVE  /\ Points(p[i]) <= MAX_POINTS_PER_REQUEST
             /\ Points(p[i]) > 0 \/ Total = 0
             /\ Shelled(p[i])
  <2>1. CASE i = Len(pieces) + 1
    BY <1>1, <1>2, <2>1 DEF Counted, Filing
  <2>2. CASE i # Len(pieces) + 1
    <3>1. i \in 1..Len(pieces)
      BY <1>2, <2>2
    <3> QED
      BY <1>1, <1>2, <3>1 DEF PiecesFit, AllShelled
  <2> QED
    BY <2>1, <2>2
<1>7. ASSUME NEW k \in 0..Len(p) PROVE Consecutive(FlattenSeq(SubSeq(p, 1, k)))
  <2>1. CASE k = Len(p)
    BY <1>1, <1>5, <2>1 DEF Cut
  <2>2. CASE k # Len(p)
    <3>1. k \in 0..Len(pieces)
      BY <1>2, <2>2
    <3>2. Consecutive(Upto(k))
      BY <1>1, <3>1 DEF SentWhole
    <3> QED
      BY <1>4, <3>1, <3>2 DEF Upto
  <2> QED
    BY <2>1, <2>2
<1> QED
  BY <1>2, <1>3, <1>6, <1>7

\* The metrics of one scope are together.
LEMMA ScopesTogether ==
  ASSUME metrics \in REQUESTS,
         NEW i \in 1..Len(metrics), NEW j \in 1..Len(metrics), NEW k \in 1..Len(metrics),
         i <= j, j <= k,
         metrics[i].ri = metrics[k].ri, metrics[i].si = metrics[k].si
  PROVE  metrics[j].ri = metrics[k].ri /\ metrics[j].si = metrics[k].si
<1>1. CASE i = j \/ j = k
  BY <1>1
<1>2. CASE i # j /\ j # k
  <2>1. NotAfter(metrics[i], metrics[j]) /\ NotAfter(metrics[j], metrics[k])
    BY <1>2, MetricsTyped
  <2>2. \A l \in {i, j, k} : metrics[l].ri \in Nat /\ metrics[l].si \in Nat
    BY MetricsTyped
  <2> QED
    BY <2>1, <2>2 DEF NotAfter
<1> QED
  BY <1>1, <1>2

\* A slice that is filed in the open shell if that is its own, and in a new one
\* otherwise, leaves a shell for each scope of the piece.
LEMMA FileKeepsShells ==
  ASSUME metrics \in REQUESTS, NEW base \in Seq(Slices), NEW b \in Slices,
         Shelled(base), Ordered(base),
         \A j \in 1..Len(base) : base[j].metric <= b.metric,
         b.shell = IF base # << >> /\ Last(base).ri = b.ri /\ Last(base).si = b.si
                     THEN Last(base).shell ELSE Len(base) + 1
  PROVE  Shelled(Append(base, b)) /\ Ordered(Append(base, b))
<1> DEFINE piece == Append(base, b)
           n == Len(base)
<1>1. /\ n \in Nat /\ Len(piece) = n + 1 /\ piece[n + 1] = b
      /\ \A j \in 1..n : piece[j] = base[j] /\ base[j] \in Slices
  OBVIOUS
<1>2. \A s \in Slices : /\ s.shell \in Nat /\ s.metric \in 1..Len(metrics)
                        /\ s.ri = metrics[s.metric].ri /\ s.si = metrics[s.metric].si
  BY DEF Slices
<1>3. ASSUME NEW j \in 1..n
      PROVE  base[j].shell = b.shell <=> base[j].ri = b.ri /\ base[j].si = b.si
  <2>1. base # << >> /\ n \in 1..n /\ Last(base) = base[n]
    BY <1>1 DEF Last
  <2>2. CASE Last(base).ri = b.ri /\ Last(base).si = b.si
    <3>1. b.shell = base[n].shell /\ base[n].ri = b.ri /\ base[n].si = b.si
      BY <2>1, <2>2
    <3> QED
      BY <2>1, <3>1 DEF Shelled
  <2>3. CASE ~ (Last(base).ri = b.ri /\ Last(base).si = b.si)
    <3>1. b.shell = n + 1 /\ base[j].shell <= j
      BY <2>3 DEF Ordered
    <3>2. base[j].shell # b.shell
      BY <1>1, <1>2, <3>1
    <3>3. base[j].metric <= base[n].metric /\ base[n].metric <= b.metric
      <4>1. j = n \/ j < n
        BY <1>1
      <4>2. j = n => base[j].metric <= base[n].metric
        BY <1>1, <1>2, <2>1
      <4> QED
        BY <2>1, <4>1, <4>2 DEF Ordered
    <3>4. ~ (base[j].ri = b.ri /\ base[j].si = b.si)
      <4> SUFFICES ASSUME base[j].ri = b.ri, base[j].si = b.si PROVE FALSE
        OBVIOUS
      <4>1. /\ base[j].metric \in 1..Len(metrics) /\ base[n].metric \in 1..Len(metrics)
            /\ b.metric \in 1..Len(metrics)
            /\ metrics[base[j].metric].ri = metrics[b.metric].ri
            /\ metrics[base[j].metric].si = metrics[b.metric].si
        BY <1>1, <1>2, <2>1
      <4>2. /\ metrics[base[n].metric].ri = metrics[b.metric].ri
            /\ metrics[base[n].metric].si = metrics[b.metric].si
        BY <3>3, <4>1, ScopesTogether
      <4> QED
        BY <1>1, <1>2, <2>1, <2>3, <4>2
    <3> QED
      BY <3>2, <3>4
  <2> QED
    BY <2>2, <2>3
<1>4. b.shell <= n + 1
  <2>1. CASE base # << >> /\ Last(base).ri = b.ri /\ Last(base).si = b.si
    <3>1. n \in 1..n /\ b.shell = base[n].shell
      BY <1>1, <2>1, EmptySeq DEF Last
    <3>2. base[n].shell <= n
      BY <3>1 DEF Ordered
    <3> QED
      BY <1>1, <1>2, <3>1, <3>2
  <2>2. CASE ~ (base # << >> /\ Last(base).ri = b.ri /\ Last(base).si = b.si)
    BY <1>1, <2>2
  <2> QED
    BY <2>1, <2>2
<1>5. \A j \in 1..n + 1 : j \in 1..n \/ j = n + 1
  BY <1>1
<1> HIDE DEF piece, n
<1>6. Shelled(piece)
  <2> SUFFICES ASSUME NEW j \in 1..n + 1, NEW k \in 1..n + 1
               PROVE  piece[j].shell = piece[k].shell
                        <=> piece[j].ri = piece[k].ri /\ piece[j].si = piece[k].si
    BY <1>1 DEF Shelled
  <2>1. CASE j \in 1..n /\ k \in 1..n
    BY <1>1, <2>1 DEF Shelled, n
  <2>2. CASE j = n + 1 \/ k = n + 1
    BY <1>1, <1>3, <1>5, <2>2
  <2> QED
    BY <1>5, <2>1, <2>2
<1>7. Ordered(piece)
  <2>1. ASSUME NEW j \in 1..n + 1 PROVE piece[j].shell <= j
    BY <1>1, <1>4, <1>5 DEF Ordered, n
  <2>2. ASSUME NEW j \in 1..n + 1, NEW k \in 1..n + 1, j < k
        PROVE  piece[j].metric <= piece[k].metric
    <3>1. j \in 1..n
      BY <1>1, <2>2
    <3> QED
      BY <1>1, <1>5, <2>2, <3>1 DEF Ordered, n
  <2> QED
    BY <1>1, <2>1, <2>2 DEF Ordered
<1> QED
  BY <1>6, <1>7 DEF piece

-----------------------------------------------------------------------------
(* Each step keeps the invariant.                                          *)

\* Each step keeps the invariant: one slice more,
LEMMA CutSliceKeeps ==
  ASSUME MInv, CutSlice
  PROVE  MInv'
<1>1. /\ TypeOK /\ Staged /\ Counted /\ PiecesFit /\ Filing /\ AllShelled
      /\ Cut /\ SentWhole /\ ArrivesInOrder
  BY DEF MInv
<1>2. /\ stage = "splitting" /\ mi \in 1..Len(metrics) /\ start' \in Nat
      /\ cur_ri' = metrics[mi].ri /\ cur_si' = metrics[mi].si
      /\ current_points' \in Nat
      /\ UNCHANGED <<metrics, stage, mi, sent, received, report>>
  BY <1>1, CutSliceEffect
<1>3. PICK b \in Slices, base \in Seq(Slices) : Takes(b, base)
  BY <1>1, CutSliceEffect
<1>4. /\ b.metric = mi /\ b.from = start /\ b.to = start'
      /\ start < start' /\ start' <= metrics[mi].n
      /\ current' = Append(base, b)
      /\ b.shell = IF base # << >> /\ Last(base).ri = b.ri /\ Last(base).si = b.si
                     THEN Last(base).shell ELSE Len(base) + 1
      /\ current_points' <= MAX_POINTS_PER_REQUEST
  BY <1>3 DEF Takes
<1>5. \/ /\ base = current /\ pieces' = pieces
         /\ current_points' = current_points + (b.to - b.from)
      \/ /\ base = << >> /\ current # << >> /\ pieces' = Append(pieces, current)
         /\ current_points' = b.to - b.from
  BY <1>3 DEF Takes
<1>6. Slices' = Slices /\ Total' = Total
  BY <1>2 DEF Slices, Total
<1>7. b.ri = metrics[mi].ri /\ b.si = metrics[mi].si
  BY <1>4 DEF Slices
<1>8. current' \in Seq(Slices) /\ current' # << >> /\ Last(current') = b
  BY <1>4, AppendProperties DEF Last
<1>9. /\ pieces' \in Seq(Seq(Slices)) /\ Len(pieces') >= Len(pieces)
      /\ \A i \in 1..Len(pieces') : /\ Points(pieces'[i]) <= MAX_POINTS_PER_REQUEST
                                    /\ Points(pieces'[i]) > 0 \/ Total = 0
                                    /\ Shelled(pieces'[i])
      /\ \A k \in 0..Len(pieces') : Consecutive(FlattenSeq(SubSeq(pieces', 1, k)))
  <2>1. CASE pieces' = pieces
    BY <1>1, <2>1 DEF TypeOK, PiecesFit, AllShelled, SentWhole, Upto
  <2>2. CASE current # << >> /\ pieces' = Append(pieces, current)
    <3>1. Len(pieces) \in Nat
      BY <1>1 DEF TypeOK
    <3>2. /\ pieces' \in Seq(Seq(Slices)) /\ Len(pieces') = Len(pieces) + 1
          /\ \A i \in 1..Len(pieces') : /\ Points(pieces'[i]) <= MAX_POINTS_PER_REQUEST
                                        /\ Points(pieces'[i]) > 0 \/ Total = 0
                                        /\ Shelled(pieces'[i])
          /\ \A k \in 0..Len(pieces') : Consecutive(FlattenSeq(SubSeq(pieces', 1, k)))
      BY <1>2, <2>2, Close
    <3> QED
      BY <3>1, <3>2
  <2> QED
    BY <1>5, <2>1, <2>2
<1>10. FlattenSeq(pieces') \o current' = Append(CutSoFar, b)
  <2>1. CutSoFar \in Seq(Slices) /\ FlattenSeq(pieces) \in Seq(Slices)
        /\ current \in Seq(Slices) /\ << b >> \in Seq(Slices)
    BY <1>1, CutSoFarTyped DEF TypeOK
  <2>2. CutSoFar \o << b >> = Append(CutSoFar, b) /\ current' = base \o << b >>
    BY <1>4, <2>1, AppendIsConcat
  <2>3. CASE base = current /\ pieces' = pieces
    <3>1. FlattenSeq(pieces) \o (current \o << b >>) = (FlattenSeq(pieces) \o current) \o << b >>
      BY <2>1, ConcatAssociative
    <3> QED
      BY <2>2, <2>3, <3>1 DEF CutSoFar
  <2>4. CASE base = << >> /\ current # << >> /\ pieces' = Append(pieces, current)
    <3>1. FlattenSeq(pieces') = CutSoFar
      BY <1>2, <2>4, Close
    <3>2. current' = << b >>
      BY <2>1, <2>2, <2>4, ConcatEmptySeq
    <3> QED
      BY <2>2, <3>1, <3>2
  <2> QED
    BY <1>5, <2>3, <2>4
<1>11. TypeOK'
  <2>1. metrics[mi].ri \in Nat /\ metrics[mi].si \in Nat
    BY <1>1, <1>2, MetricsTyped DEF TypeOK
  <2>2. sent' \in 0..Len(pieces')
    BY <1>1, <1>2, <1>9 DEF TypeOK
  <2> QED
    BY <1>1, <1>2, <1>6, <1>8, <1>9, <2>1, <2>2 DEF TypeOK
<1>12. Staged'
  BY <1>1, <1>2 DEF Staged
<1>13. Counted'
  <2>1. Points(current') = current_points' /\ current_points' > 0
    <3>1. Points(current') = Points(base) + (b.to - b.from) /\ Points(base) \in Nat
      BY <1>4, PointsAppend
    <3>3. b.to - b.from \in Nat \ {0}
      <4>1. b.to \in Nat /\ b.from \in Nat
        BY DEF Slices
      <4>2. b.from < b.to
        BY <1>4
      <4> QED
        BY <4>1, <4>2
    <3>2. current_points' = Points(base) + (b.to - b.from)
      BY <1>1, <1>5, <3>3, PointsEmpty DEF Counted
    <3> QED
      BY <3>1, <3>2, <3>3
  <2>2. pieces' = << >> => current_points' = PointsBefore(mi) + start'
    <3> SUFFICES ASSUME pieces' = << >> PROVE current_points' = PointsBefore(mi) + start'
      OBVIOUS
    <3>1. ~ (pieces' = Append(pieces, current))
      <4>1. pieces \in Seq(Seq(Slices)) /\ current \in Seq(Slices)
        BY <1>1 DEF TypeOK
      <4>2. Append(pieces, current) # << >>
        BY <4>1, AppendProperties
      <4> QED
        BY <4>2
    <3>2. current_points' = current_points + (start' - start) /\ pieces = << >>
      BY <1>4, <1>5, <3>1
    <3>3. PointsBefore(mi) \in Nat /\ start \in Nat
      BY <1>1, <1>2, PointsBeforeStep DEF TypeOK
    <3> QED
      BY <1>1, <1>2, <3>2, <3>3 DEF Counted
  <2>3. PointsBefore(mi)' = PointsBefore(mi) /\ metrics'[mi'] = metrics[mi]
    BY <1>2 DEF PointsBefore
  <2>4. Points(current)' = Points(current')
    BY DEF Points
  <2>5. mi' <= Len(metrics')
    BY <1>2
  <2> QED
    BY <1>1, <1>2, <1>4, <1>6, <2>1, <2>2, <2>3, <2>4, <2>5 DEF Counted
<1>14. PiecesFit'
  BY <1>2, <1>6, <1>9 DEF PiecesFit, Points
<1>15. Filing'
  <2>1. Shelled(base) /\ Ordered(base) /\ \A j \in 1..Len(base) : base[j].metric <= b.metric
    BY <1>1, <1>4, <1>5 DEF Filing, Shelled, Ordered
  <2>2. Shelled(current') /\ Ordered(current')
    BY <1>1, <1>4, <2>1, FileKeepsShells DEF TypeOK
  <2>3. \A j \in 1..Len(current') : current'[j].metric <= mi
    <3>1. \A j \in 1..Len(base) : current'[j] = base[j]
      BY <1>4, AppendProperties
    <3>2. Len(current') = Len(base) + 1 /\ current'[Len(base) + 1] = b /\ Len(base) \in Nat
      BY <1>4, AppendProperties
    <3>3. \A j \in 1..Len(base) + 1 : j \in 1..Len(base) \/ j = Len(base) + 1
      BY <3>2
    <3>4. b.metric <= mi
      BY <1>2, <1>4
    <3> QED
      BY <1>4, <2>1, <3>1, <3>2, <3>3, <3>4
  <2> QED
    BY <1>2, <1>7, <1>8, <2>2, <2>3 DEF Filing, Shelled, Ordered
<1>16. AllShelled'
  BY <1>9 DEF AllShelled, Shelled
<1>17. Cut'
  <2>1. Consecutive(CutSoFar) /\ CutSoFar \in Seq(Slices)
    BY <1>1, <1>2, CutSoFarTyped DEF Cut
  <2>2. Follows(CutSoFar, b)
    <3>1. CASE start > 0
      BY <1>1, <1>2, <1>4, <3>1 DEF Cut, Follows
    <3>2. CASE ~ (start > 0)
      <4>1. /\ ReachesEndOf(CutSoFar, mi - 1) /\ b.from = 0
            /\ CutSoFar # << >> => Last(CutSoFar).metric < mi
        BY <1>1, <1>2, <1>4, <3>2 DEF Cut, TypeOK
      <4>2. CutSoFar # << >> => Last(CutSoFar) \in Slices
        BY <2>1 DEF Last
      <4>3. CutSoFar # << >> => Last(CutSoFar).metric # mi
        BY <1>2, <4>1, <4>2 DEF Slices
      <4> QED
        BY <1>4, <4>1, <4>3 DEF Follows, ReachesEndOf
    <3> QED
      BY <3>1, <3>2
  <2>3. Consecutive(Append(CutSoFar, b))
    BY <2>1, <2>2, ConsecutiveAppend
  <2>4. /\ Append(CutSoFar, b) # << >> /\ Last(Append(CutSoFar, b)) = b
    BY <2>1, AppendProperties DEF Last
  <2>5. CutSoFar' = Append(CutSoFar, b)
    BY <1>10 DEF CutSoFar
  <2>6. Consecutive(CutSoFar)'
    BY <1>2, <2>3, <2>5 DEF Consecutive, Empty
  <2>7. start' > 0
    BY <1>1, <1>2, <1>4 DEF TypeOK
  <2>8. Last(CutSoFar)' = b
    BY <2>4, <2>5 DEF Last
  <2> QED
    BY <1>2, <1>4, <2>4, <2>5, <2>6, <2>7, <2>8 DEF Cut
<1>18. SentWhole'
  <2>1. ASSUME NEW k \in 0..Len(pieces') PROVE Consecutive(Upto(k))'
    <3>1. Consecutive(FlattenSeq(SubSeq(pieces', 1, k)))
      BY <1>9
    <3> QED
      BY <1>2, <3>1 DEF Upto, Consecutive, Empty
  <2> QED
    BY <1>2, <2>1 DEF SentWhole
<1>19. ArrivesInOrder'
  BY <1>1, <1>2 DEF ArrivesInOrder, Consecutive, ReachesEndOf, Empty
<1> QED
  BY <1>11, <1>12, <1>13, <1>14, <1>15, <1>16, <1>17, <1>18, <1>19 DEF MInv

\* one metric further,
LEMMA NextMetricKeeps ==
  ASSUME MInv, NextMetric
  PROVE  MInv'
<1>1. /\ TypeOK /\ Staged /\ Counted /\ PiecesFit /\ Filing /\ AllShelled
      /\ Cut /\ SentWhole /\ ArrivesInOrder
  BY DEF MInv
<1>2. /\ stage = "splitting" /\ mi <= Len(metrics) /\ start = metrics[mi].n
      /\ mi' = mi + 1 /\ start' = 0
      /\ UNCHANGED <<metrics, stage, current, current_points, cur_ri, cur_si, pieces,
                     sent, received, report>>
  BY DEF NextMetric, sendVars
<1>3. mi \in 1..Len(metrics) /\ mi \in Nat /\ mi + 1 \in 1..Len(metrics) + 1 /\ (mi + 1) - 1 = mi
      /\ Len(metrics) \in Nat
  BY <1>1, <1>2, MetricsTyped DEF TypeOK
<1>4. TypeOK'
  BY <1>1, <1>2, <1>3 DEF TypeOK, Slices
<1>5. Staged'
  BY <1>1, <1>2 DEF Staged
<1>6. Counted'
  <2>1. Total' = Total /\ Points(current)' = Points(current)
        /\ PointsBefore(mi)' = PointsBefore(mi + 1)
    BY <1>2 DEF Total, Points, PointsBefore
  <2>2. pieces = << >> => current_points = PointsBefore(mi + 1) + 0
    <3>1. PointsBefore(mi) \in Nat /\ metrics[mi].n \in Nat
          /\ PointsBefore(mi + 1) = PointsBefore(mi) + metrics[mi].n
      BY <1>1, <1>3, PointsBeforeStep, MetricsTyped DEF TypeOK
    <3> QED
      BY <1>1, <1>2, <3>1 DEF Counted
  <2>3. 0 <= IF mi + 1 <= Len(metrics) THEN metrics[mi + 1].n ELSE 0
    <3>1. mi + 1 <= Len(metrics) => metrics[mi + 1].n \in Nat
      BY <1>1, <1>3, MetricsTyped DEF TypeOK
    <3> QED
      BY <3>1
  <2> QED
    BY <1>1, <1>2, <2>1, <2>2, <2>3 DEF Counted
<1>7. PiecesFit' /\ AllShelled'
  BY <1>1, <1>2 DEF PiecesFit, Points, Total, AllShelled, Shelled
<1>8. Filing'
  <2>1. \A j \in 1..Len(current) : current[j].metric <= mi + 1
    <3>1. \A j \in 1..Len(current) : current[j] \in Slices /\ current[j].metric <= mi
      BY <1>1 DEF TypeOK, Filing
    <3>2. \A s \in Slices : s.metric \in Nat
      BY DEF Slices
    <3> QED
      BY <1>3, <3>1, <3>2
  <2> QED
    BY <1>1, <1>2, <2>1 DEF Filing, Shelled, Ordered, Last
<1>9. Cut'
  <2>1. CutSoFar' = CutSoFar /\ CutSoFar \in Seq(Slices) /\ Consecutive(CutSoFar)
    BY <1>1, <1>2, CutSoFarTyped DEF CutSoFar, Cut
  <2>2. CutSoFar # << >> => Last(CutSoFar) \in Slices
    BY <2>1 DEF Last
  <2>3. CutSoFar # << >> => Last(CutSoFar).metric \in Nat /\ Last(CutSoFar).metric <= mi
    BY <1>1, <1>2, <1>3, <2>2 DEF Cut, Slices
  <2>4. ReachesEndOf(CutSoFar, mi)
    <3>1. CASE start > 0
      <4>1. /\ CutSoFar # << >> /\ Last(CutSoFar).metric = mi
            /\ Last(CutSoFar).to = metrics[mi].n
        BY <1>1, <1>2, <3>1 DEF Cut
      <4>2. Empty(mi + 1..mi)
        BY <1>3 DEF Empty
      <4> QED
        BY <4>1, <4>2 DEF ReachesEndOf
    <3>2. CASE ~ (start > 0)
      <4>1. ReachesEndOf(CutSoFar, mi - 1) /\ metrics[mi].n = 0
        BY <1>1, <1>2, <3>2 DEF Cut, TypeOK
      <4>2. \A m \in Nat : Empty(m + 1..mi - 1) => Empty(m + 1..mi)
        BY <1>3, <4>1 DEF Empty
      <4>3. Empty(1..mi - 1) => Empty(1..mi)
        BY <1>3, <4>1 DEF Empty
      <4> QED
        BY <2>3, <4>1, <4>2, <4>3 DEF ReachesEndOf
    <3> QED
      BY <3>1, <3>2
  <2>5. CutSoFar # << >> => Last(CutSoFar).metric < mi + 1
    BY <1>3, <2>3
  <2>6. Consecutive(CutSoFar)'
    BY <1>2, <2>1 DEF Consecutive, Empty
  <2>7. ReachesEndOf(CutSoFar, mi - 1)'
    BY <1>2, <1>3, <2>1, <2>4 DEF ReachesEndOf, Empty, Last
  <2>8. (CutSoFar # << >> => Last(CutSoFar).metric < mi)'
    BY <1>2, <2>1, <2>5 DEF Last
  <2> QED
    BY <1>2, <2>6, <2>7, <2>8 DEF Cut
<1>10. SentWhole' /\ ArrivesInOrder'
  BY <1>1, <1>2 DEF SentWhole, Upto, ArrivesInOrder, Consecutive, ReachesEndOf, Empty
<1> QED
  BY <1>4, <1>5, <1>6, <1>7, <1>8, <1>9, <1>10 DEF MInv

\* the end of the request,
LEMMA SplitEndsKeeps ==
  ASSUME MInv, SplitEnds
  PROVE  MInv'
<1>1. /\ TypeOK /\ Staged /\ Counted /\ PiecesFit /\ Filing /\ AllShelled
      /\ Cut /\ SentWhole /\ ArrivesInOrder
  BY DEF MInv
<1>2. /\ stage = "splitting" /\ mi > Len(metrics)
      /\ pieces' = IF current_points > 0 THEN Append(pieces, current) ELSE pieces
      /\ stage' = "sending"
      /\ UNCHANGED <<metrics, mi, start, current, current_points, cur_ri, cur_si,
                     sent, received, report>>
  BY DEF SplitEnds, splitVars, sendVars
<1>3. Len(metrics) \in Nat /\ mi = Len(metrics) + 1 /\ mi - 1 = Len(metrics) /\ start = 0
  <2>1. start \in Nat /\ start <= 0
    BY <1>1, <1>2 DEF TypeOK, Counted
  <2> QED
    BY <1>1, <1>2, <2>1, MetricsTyped DEF TypeOK
<1>4. current # << >> <=> current_points > 0
  BY <1>1, PointsEmpty DEF Counted
<1>5. /\ pieces' \in Seq(Seq(Slices)) /\ Len(pieces') >= Len(pieces)
      /\ \A i \in 1..Len(pieces') : /\ Points(pieces'[i]) <= MAX_POINTS_PER_REQUEST
                                    /\ Points(pieces'[i]) > 0 \/ Total = 0
                                    /\ Shelled(pieces'[i])
      /\ \A k \in 0..Len(pieces') : Consecutive(FlattenSeq(SubSeq(pieces', 1, k)))
      /\ FlattenSeq(pieces') = CutSoFar
  <2>1. CASE current = << >>
    <3>1. pieces' = pieces
      BY <1>2, <1>4, <2>1
    <3>2. FlattenSeq(pieces) = CutSoFar
      <4>1. FlattenSeq(pieces) \o << >> = FlattenSeq(pieces)
        BY <1>1, CutSoFarTyped, ConcatEmptySeq
      <4> QED
        BY <2>1, <4>1 DEF CutSoFar
    <3> QED
      BY <1>1, <3>1, <3>2 DEF TypeOK, PiecesFit, AllShelled, SentWhole, Upto
  <2>2. CASE current # << >>
    <3>1. Len(pieces) \in Nat /\ pieces' = Append(pieces, current)
      BY <1>1, <1>2, <1>4, <2>2 DEF TypeOK
    <3>2. /\ pieces' \in Seq(Seq(Slices)) /\ Len(pieces') = Len(pieces) + 1
          /\ FlattenSeq(pieces') = CutSoFar
          /\ \A i \in 1..Len(pieces') : /\ Points(pieces'[i]) <= MAX_POINTS_PER_REQUEST
                                        /\ Points(pieces'[i]) > 0 \/ Total = 0
                                        /\ Shelled(pieces'[i])
          /\ \A k \in 0..Len(pieces') : Consecutive(FlattenSeq(SubSeq(pieces', 1, k)))
      BY <1>2, <2>2, <3>1, Close
    <3> QED
      BY <3>1, <3>2
  <2> QED
    BY <2>1, <2>2
\* The points did not all fit the open piece, so another was closed before.
<1>6. pieces' # << >>
  <2> SUFFICES ASSUME pieces' = << >> PROVE FALSE
    OBVIOUS
  <2>1. pieces = << >>
    <3>1. pieces \in Seq(Seq(Slices)) /\ Len(pieces) \in Nat
      BY <1>1, LenProperties DEF TypeOK
    <3>2. Len(pieces) <= 0
      BY <1>5, EmptySeq
    <3> QED BY <3>1, <3>2, EmptySeq
  <2>2. current_points = Total + 0
    BY <1>1, <1>2, <1>3, <2>1, PointsBeforeAll DEF Counted, TypeOK
  <2>3. Total \in Nat /\ Total > MAX_POINTS_PER_REQUEST
    BY <1>1, <1>2, WholeIsRight, PointsTyped, SMTT(20) DEF Counted, TypeOK
  <2>4. current_points <= MAX_POINTS_PER_REQUEST
    BY <1>1 DEF Counted
  <2> QED
    BY <2>2, <2>3, <2>4, CapAssumption
<1>7. sent = 0 /\ received = << >> /\ report = "none"
  BY <1>1, <1>2 DEF Staged
<1>8. TypeOK'
  <2>1. 0 \in 0..Len(pieces')
    BY <1>5
  <2> QED
    BY <1>1, <1>2, <1>5, <1>7, <2>1 DEF TypeOK, Slices
<1>9. Staged'
  BY <1>2, <1>7 DEF Staged
<1>10. Counted' /\ Filing'
  BY <1>1, <1>2 DEF Counted, Points, Filing, Shelled, Ordered, Last
<1>11. PiecesFit' /\ AllShelled'
  <2>1. PiecesFit'
    BY <1>2, <1>5, <1>6 DEF PiecesFit, Points, Total
  <2>2. AllShelled'
    BY <1>5 DEF AllShelled, Shelled
  <2> QED
    BY <2>1, <2>2
<1>12. Cut'
  BY <1>2 DEF Cut
<1>13. SentWhole'
  <2>1. ASSUME NEW k \in 0..Len(pieces') PROVE Consecutive(Upto(k))'
    <3>1. Consecutive(FlattenSeq(SubSeq(pieces', 1, k)))
      BY <1>5
    <3> QED
      BY <1>2, <3>1 DEF Upto, Consecutive, Empty
  <2>2. received' = Upto(sent)'
    BY <1>2, <1>7, UptoNone DEF Upto
  <2>3. ReachesEndOf(FlattenSeq(pieces'), Len(metrics))
    BY <1>1, <1>2, <1>3, <1>5 DEF Cut
  <2>4. ReachesEndOf(FlattenSeq(pieces), Len(metrics))'
    BY <1>2, <2>3 DEF ReachesEndOf, Empty
  <2> QED
    BY <1>2, <2>1, <2>2, <2>4 DEF SentWhole
<1>14. ArrivesInOrder'
  BY <1>1, <1>2, <1>7 DEF ArrivesInOrder, Consecutive
<1> QED
  BY <1>8, <1>9, <1>10, <1>11, <1>12, <1>13, <1>14 DEF MInv

\* a request that goes out as it came,
LEMMA WithinCapKeeps ==
  ASSUME MInv, WithinCap
  PROVE  MInv'
<1>1. /\ TypeOK /\ Staged /\ Counted /\ Filing /\ ArrivesInOrder
  BY DEF MInv
<1>2. /\ stage = "token" /\ Total <= MAX_POINTS_PER_REQUEST
      /\ pieces' = << Whole >> /\ stage' = "sending"
      /\ UNCHANGED <<metrics, mi, start, current, current_points, cur_ri, cur_si,
                     sent, received, report>>
  BY DEF WithinCap, splitVars, sendVars
<1>3. sent = 0 /\ received = << >> /\ report = "none"
  BY <1>1, <1>2 DEF Staged
<1>4. /\ Whole \in Seq(Slices) /\ Points(Whole) = Total /\ Shelled(Whole)
      /\ Consecutive(Whole) /\ ReachesEndOf(Whole, Len(metrics))
  BY <1>1, WholeIsRight, WholeIsShelled DEF TypeOK
<1>5. /\ pieces' \in Seq(Seq(Slices)) /\ Len(pieces') = 1 /\ pieces'[1] = Whole
      /\ FlattenSeq(pieces') = Whole
  <2>1. << >> \in Seq(Seq(Slices)) /\ Append(<< >>, Whole) = << Whole >>
    OBVIOUS
  <2>2. << >> \o Whole = Whole
    BY <1>4, ConcatEmptySeq
  <2>3. FlattenSeq(<< Whole >>) = Whole
    BY <1>4, <2>1, <2>2, FlattenAppend, FlattenEmpty
  <2> QED
    BY <1>2, <1>4, <2>3
<1>7. TypeOK'
  BY <1>1, <1>2, <1>3, <1>5 DEF TypeOK, Slices
<1>8. Staged'
  BY <1>2, <1>3 DEF Staged
<1>9. Counted' /\ Filing'
  BY <1>1, <1>2 DEF Counted, Points, Filing, Shelled, Ordered, Last
<1>10. PiecesFit' /\ AllShelled'
  <2>1. \A i \in 1..Len(pieces') : /\ Points(pieces'[i]) <= MAX_POINTS_PER_REQUEST
                                   /\ Points(pieces'[i]) > 0 \/ Total = 0
                                   /\ Shelled(pieces'[i])
    <3>1. \A i \in 1..Len(pieces') : pieces'[i] = Whole
      BY <1>5
    <3>2. Total > 0 \/ Total = 0
      <4>1. Points(Whole) \in Nat
        BY <1>4, PointsTyped
      <4> QED
        BY <1>4, <4>1
    <3> QED
      BY <1>2, <1>4, <3>1, <3>2
  <2>2. pieces' # << >>
    BY <1>2
  <2> QED
    BY <1>2, <2>1, <2>2 DEF PiecesFit, Points, Total, AllShelled, Shelled
<1>11. Cut'
  BY <1>2 DEF Cut
<1>12. SentWhole'
  <2>1. ASSUME NEW k \in 0..Len(pieces') PROVE Consecutive(Upto(k))'
    <3>1. Consecutive(FlattenSeq(SubSeq(pieces', 1, k)))
      <4>1. CASE k = 0
        BY <4>1, UptoNone DEF Consecutive
      <4>2. CASE k = Len(pieces')
        <5>1. FlattenSeq(SubSeq(pieces', 1, Len(pieces'))) = FlattenSeq(pieces')
          BY <1>5, UptoAll
        <5> QED
          BY <1>4, <1>5, <4>2, <5>1
      <4> QED
        BY <1>5, <4>1, <4>2
    <3> QED
      BY <1>2, <3>1 DEF Upto, Consecutive, Empty
  <2>2. received' = Upto(sent)'
    BY <1>2, <1>3, UptoNone DEF Upto
  <2>3. ReachesEndOf(FlattenSeq(pieces), Len(metrics))'
    BY <1>2, <1>4, <1>5 DEF ReachesEndOf, Empty
  <2> QED
    BY <1>2, <2>1, <2>2, <2>3 DEF SentWhole
<1>13. ArrivesInOrder'
  BY <1>1, <1>2, <1>3 DEF ArrivesInOrder, Consecutive
<1> QED
  BY <1>7, <1>8, <1>9, <1>10, <1>11, <1>12, <1>13 DEF MInv

\* Up to the loop and after it, the pieces stay as they are.
LEMMA Undisturbed ==
  ASSUME MInv, UNCHANGED <<metrics, splitVars, pieces>>,
         stage' = "splitting" => stage = "splitting",
         stage' = "sending" => stage = "sending"
  PROVE  /\ Counted' /\ PiecesFit' /\ Filing' /\ AllShelled' /\ Cut'
         /\ \A k \in 0..Len(pieces') : Consecutive(Upto(k))'
         /\ stage' = "sending" => ReachesEndOf(FlattenSeq(pieces), Len(metrics))'
<1>1. /\ Counted /\ PiecesFit /\ Filing /\ AllShelled /\ Cut /\ SentWhole
  BY DEF MInv
<1>2. /\ metrics' = metrics /\ mi' = mi /\ start' = start /\ current' = current
      /\ current_points' = current_points /\ cur_ri' = cur_ri /\ cur_si' = cur_si
      /\ pieces' = pieces
  BY DEF splitVars
<1>3. Counted'
  BY <1>1, <1>2 DEF Counted, Points, Total, PointsBefore
<1>4. PiecesFit' /\ AllShelled'
  BY <1>1, <1>2 DEF PiecesFit, Points, Total, AllShelled, Shelled
<1>5. Filing'
  BY <1>1, <1>2 DEF Filing, Shelled, Ordered, Last
<1>6. Cut'
  BY <1>1, <1>2 DEF Cut, CutSoFar, Consecutive, ReachesEndOf, Empty, Last
<1>7. \A k \in 0..Len(pieces') : Consecutive(Upto(k))'
  BY <1>1, <1>2 DEF SentWhole, Upto, Consecutive, Empty
<1>8. stage' = "sending" => ReachesEndOf(FlattenSeq(pieces), Len(metrics))'
  BY <1>1, <1>2 DEF SentWhole, ReachesEndOf, Empty
<1> QED
  BY <1>3, <1>4, <1>5, <1>6, <1>7, <1>8

LEMMA OverCapKeeps ==
  ASSUME MInv, OverCap
  PROVE  MInv'
<1>1. /\ TypeOK /\ Staged /\ Counted /\ PiecesFit /\ Filing /\ AllShelled
      /\ Cut /\ SentWhole /\ ArrivesInOrder
  BY DEF MInv
<1>2. /\ stage = "token" /\ stage' = "splitting" /\ Total > MAX_POINTS_PER_REQUEST
      /\ UNCHANGED <<metrics, mi, start, current, current_points, cur_ri, cur_si, pieces,
                     sent, received, report>>
  BY DEF OverCap, splitVars, sendVars
<1>3. /\ mi = 1 /\ start = 0 /\ current = << >> /\ pieces = << >>
      /\ sent = 0 /\ received = << >> /\ report = "none"
  BY <1>1, <1>2 DEF Staged
<1>4. TypeOK' /\ Staged'
  BY <1>1, <1>2, <1>3 DEF TypeOK, Staged, Slices
<1>5. Counted'
  <2>1. current_points = 0 /\ PointsBefore(1) = 0
    BY <1>1, <1>3, PointsEmpty, PointsBeforeFirst DEF Counted
  <2>2. 0 <= IF 1 <= Len(metrics) THEN metrics[1].n ELSE 0
    <3>1. 1 <= Len(metrics) => metrics[1].n \in Nat
      BY <1>1, MetricsTyped DEF TypeOK
    <3> QED
      BY <3>1
  <2>3. Total' = Total /\ Points(current)' = Points(current)
        /\ PointsBefore(mi)' = PointsBefore(mi)
    BY <1>2 DEF Total, Points, PointsBefore
  <2> QED
    BY <1>1, <1>2, <1>3, <2>1, <2>2, <2>3 DEF Counted
<1>6. PiecesFit' /\ AllShelled'
  BY <1>1, <1>2 DEF PiecesFit, Points, Total, AllShelled, Shelled
<1>7. Filing'
  BY <1>1, <1>2 DEF Filing, Shelled, Ordered, Last
<1>8. Cut'
  <2>1. << >> \in Seq(Slices) /\ << >> \o << >> = << >>
    OBVIOUS
  <2>2. CutSoFar = << >>
    BY <1>3, <2>1, FlattenEmpty DEF CutSoFar
  <2>3. Consecutive(<< >>) /\ ReachesEndOf(<< >>, 0)
    BY DEF Consecutive, ReachesEndOf, Empty
  <2>4. CutSoFar' = CutSoFar
    BY <1>2 DEF CutSoFar
  <2>5. Consecutive(CutSoFar)' /\ ReachesEndOf(CutSoFar, mi - 1)'
    BY <1>2, <1>3, <2>2, <2>3, <2>4 DEF Consecutive, ReachesEndOf, Empty
  <2> QED
    BY <1>2, <1>3, <2>2, <2>4, <2>5 DEF Cut
<1>9. SentWhole' /\ ArrivesInOrder'
  BY <1>1, <1>2, <1>3 DEF SentWhole, Upto, ArrivesInOrder, Consecutive, ReachesEndOf, Empty
<1> QED
  BY <1>4, <1>5, <1>6, <1>7, <1>8, <1>9 DEF MInv

\* What arrived when the call ends is the pieces before the one that failed, with
\* or without it.
LEMMA SendingKeeps ==
  ASSUME MInv, NoToken \/ Accepted \/ Rejected \/ CallFails \/ AllSent
  PROVE  MInv'
<1>1. /\ TypeOK /\ Staged /\ SentWhole /\ ArrivesInOrder
  BY DEF MInv
<1>2. UNCHANGED <<metrics, splitVars, pieces>> /\ stage' \in {stage, "over"}
      /\ stage \in {"token", "sending"}
  BY DEF NoToken, Accepted, Rejected, CallFails, AllSent
<1>3. /\ metrics' = metrics /\ mi' = mi /\ start' = start /\ current' = current
      /\ current_points' = current_points /\ cur_ri' = cur_ri /\ cur_si' = cur_si
      /\ pieces' = pieces
  BY <1>2 DEF splitVars
<1>4. /\ Counted' /\ PiecesFit' /\ Filing' /\ AllShelled' /\ Cut'
      /\ \A k \in 0..Len(pieces') : Consecutive(Upto(k))'
      /\ stage' = "sending" => ReachesEndOf(FlattenSeq(pieces), Len(metrics))'
  BY <1>2, Undisturbed
<1>5. Len(pieces) \in Nat /\ sent \in 0..Len(pieces) /\ pieces \in Seq(Seq(Slices))
  BY <1>1 DEF TypeOK
<1>6. CASE NoToken
  <2>1. /\ stage = "token" /\ stage' = "over" /\ report' = "error"
        /\ sent' = sent /\ received' = received
    BY <1>6 DEF NoToken, sendVars
  <2>2. TypeOK' /\ Staged' /\ ArrivesInOrder'
    BY <1>1, <1>3, <2>1
       DEF TypeOK, Slices, Staged, ArrivesInOrder, Consecutive, Empty
  <2> QED
    BY <1>4, <2>1, <2>2 DEF MInv, SentWhole
<1>7. CASE AllSent
  <2>1. /\ stage = "sending" /\ sent = Len(pieces) /\ stage' = "over" /\ report' = "ok"
        /\ sent' = sent /\ received' = received
    BY <1>7 DEF AllSent, sendVars
  <2>2. TypeOK' /\ Staged'
    BY <1>1, <1>3, <2>1 DEF TypeOK, Slices, Staged
  <2>3. Consecutive(received) /\ ReachesEndOf(received, Len(metrics))
    <3>1. FlattenSeq(SubSeq(pieces, 1, Len(pieces))) = FlattenSeq(pieces)
      BY <1>5, UptoAll
    <3>2. received = FlattenSeq(pieces)
      BY <1>1, <2>1, <3>1 DEF SentWhole, Upto
    <3> QED
      BY <1>1, <2>1, <3>2 DEF SentWhole, ArrivesInOrder
  <2>4. ArrivesInOrder'
    BY <1>3, <2>1, <2>3 DEF ArrivesInOrder, Consecutive, ReachesEndOf, Empty
  <2> QED
    BY <1>4, <2>1, <2>2, <2>4 DEF MInv, SentWhole
<1>8. CASE Accepted \/ Rejected \/ CallFails
  <2>1. /\ stage = "sending" /\ sent < Len(pieces) /\ sent' = sent + 1
        /\ received' \in {received, received \o pieces[sent + 1]}
        /\ \/ stage' = "over" /\ report' \in {"rejected", "error"}
           \/ /\ stage' = "sending" /\ report' = report
              /\ received' = received \o pieces[sent + 1]
    BY <1>8 DEF Accepted, Rejected, CallFails
  <2>2. /\ sent \in 0..Len(pieces) - 1 /\ sent + 1 \in 0..Len(pieces)
        /\ received = Upto(sent)
    BY <1>1, <1>5, <2>1 DEF SentWhole
  <2>3. /\ received \o pieces[sent + 1] = Upto(sent + 1)
        /\ received \o pieces[sent + 1] \in Seq(Slices)
    <3>1. /\ Upto(sent) \in Seq(Slices) /\ pieces[sent + 1] \in Seq(Slices)
          /\ Upto(sent + 1) = Upto(sent) \o pieces[sent + 1]
      BY <1>5, <2>2, UptoNext DEF Upto
    <3> QED
      BY <2>2, <3>1, ConcatProperties
  <2>4. received' \in Seq(Slices) /\ Consecutive(received')
    BY <1>1, <2>1, <2>2, <2>3 DEF TypeOK, SentWhole
  <2>5. stage' = "sending" => received' = Upto(sent)'
    BY <1>3, <2>1, <2>3 DEF Upto
  <2>6. TypeOK' /\ Staged'
    BY <1>1, <1>3, <2>1, <2>2, <2>4 DEF TypeOK, Slices, Staged
  <2>7. ArrivesInOrder'
    <3>1. report' # "ok"
      BY <1>1, <2>1 DEF Staged
    <3> QED
      BY <1>3, <2>4, <3>1 DEF ArrivesInOrder, Consecutive, Empty
  <2>8. SentWhole'
    BY <1>4, <2>5 DEF SentWhole
  <2> QED
    BY <1>4, <2>6, <2>7, <2>8 DEF MInv
<1> QED
  BY <1>6, <1>7, <1>8

\* The invariant holds at the start, and every step keeps it.
LEMMA MInvInit == Init => MInv
<1> SUFFICES ASSUME Init PROVE MInv
  OBVIOUS
<1>1. /\ metrics \in REQUESTS /\ stage = "token" /\ mi = 1 /\ start = 0
      /\ current = << >> /\ current_points = 0 /\ cur_ri = NoShell /\ cur_si = NoShell
      /\ pieces = << >> /\ sent = 0 /\ received = << >> /\ report = "none"
  BY DEF Init
<1>2. TypeOK
  <2>1. /\ << >> \in Seq(Slices) /\ << >> \in Seq(Seq(Slices)) /\ Len(<< >>) = 0
        /\ NoShell \in Nat
    BY DEF NoShell
  <2>2. 1 \in 1..Len(metrics) + 1
    BY <1>1, MetricsTyped
  <2> QED
    BY <1>1, <2>1, <2>2 DEF TypeOK
<1>3. Staged /\ Cut
  BY <1>1 DEF Staged, Cut
<1>4. Counted
  BY <1>1, PointsEmpty, CapAssumption DEF Counted
<1>5. PiecesFit /\ AllShelled
  BY <1>1 DEF PiecesFit, AllShelled
<1>6. Filing
  BY <1>1 DEF Filing, Shelled, Ordered
<1>7. SentWhole
  <2>1. \A k \in 0..Len(pieces) : Upto(k) = << >>
    BY <1>1, UptoNone DEF Upto
  <2> QED
    BY <1>1, <2>1 DEF SentWhole, Consecutive
<1>8. ArrivesInOrder
  BY <1>1 DEF ArrivesInOrder, Consecutive
<1> QED
  BY <1>2, <1>3, <1>4, <1>5, <1>6, <1>7, <1>8 DEF MInv

LEMMA MInvNext == MInv /\ [Next]_vars => MInv'
<1> SUFFICES ASSUME MInv, [Next]_vars PROVE MInv'
  OBVIOUS
<1>1. CASE UNCHANGED vars
  <2>1. UNCHANGED <<metrics, splitVars, pieces, stage>>
        /\ sent' = sent /\ received' = received /\ report' = report
    BY <1>1 DEF vars, sendVars
  <2>2. /\ Counted' /\ PiecesFit' /\ Filing' /\ AllShelled' /\ Cut'
    BY <2>1, Undisturbed
  <2>3. TypeOK' /\ Staged'
    BY <2>1 DEF MInv, TypeOK, Slices, Staged, splitVars
  <2>4. SentWhole' /\ ArrivesInOrder'
    BY <2>1 DEF MInv, SentWhole, Upto, ArrivesInOrder, Consecutive, ReachesEndOf, Empty
  <2> QED
    BY <2>2, <2>3, <2>4 DEF MInv
<1>2. CASE Next
  BY <1>1, <1>2, WithinCapKeeps, OverCapKeeps, CutSliceKeeps, NextMetricKeeps,
     SplitEndsKeeps, SendingKeeps DEF Next, Step, Over
<1> QED
  BY <1>1, <1>2

LEMMA MInvariant == Spec => []MInv
BY MInvInit, MInvNext, PTL DEF Spec

-----------------------------------------------------------------------------
(* The theorems.                                                           *)

\* Every state of an export is of the types the code gives it.
THEOREM ExportTypeCorrect == Spec => []TypeOK
BY MInvariant, PTL DEF MInv

\* For every request and every cap: no piece is over the cap, none is empty, and
\* split_request never returns zero pieces.
THEOREM EveryPieceFits == Spec => []PiecesFit
BY MInvariant, PTL DEF MInv

\* For every request and every cap: the pieces hold each point of the request
\* once and in its order, as far as split_request has come.
THEOREM CutKeepsEveryPoint == Spec => []EveryPointOnce
<1>1. MInv => EveryPointOnce
  <2> SUFFICES ASSUME MInv PROVE EveryPointOnce
    OBVIOUS
  <2>1. TypeOK /\ Cut /\ SentWhole
    BY DEF MInv
  <2>2. CASE stage = "splitting"
    BY <2>1, <2>2 DEF Cut, CutSoFar, EveryPointOnce
  <2>3. CASE stage # "splitting"
    <3>1. FlattenSeq(pieces) \o << >> = FlattenSeq(pieces)
      BY <2>1, CutSoFarTyped, ConcatEmptySeq
    <3>2. Consecutive(FlattenSeq(pieces))
      <4>1. FlattenSeq(SubSeq(pieces, 1, Len(pieces))) = FlattenSeq(pieces)
        BY <2>1, UptoAll DEF TypeOK
      <4>2. Len(pieces) \in 0..Len(pieces)
        BY <2>1 DEF TypeOK
      <4>3. Consecutive(Upto(Len(pieces)))
        BY <2>1, <4>2 DEF SentWhole
      <4> QED
        BY <4>1, <4>3 DEF Upto
    <3> QED
      BY <2>1, <2>3, <3>1, <3>2 DEF SentWhole, EveryPointOnce
  <2> QED
    BY <2>2, <2>3
<1> QED
  BY <1>1, MInvariant, PTL

\* For every request that lists the metrics of a scope together: each slice is
\* filed under its own resource and scope, and no piece has a shell twice.
THEOREM EverySliceInItsShell == Spec => []ShellsKept
<1>1. MInv => ShellsKept
  <2> SUFFICES ASSUME MInv, NEW i \in 1..Len(pieces)
               PROVE  /\ \A j \in 1..Len(pieces[i]) :
                           /\ pieces[i][j].ri = metrics[pieces[i][j].metric].ri
                           /\ pieces[i][j].si = metrics[pieces[i][j].metric].si
                      /\ Shelled(pieces[i])
    BY DEF ShellsKept, Shelled
  <2>1. pieces[i] \in Seq(Slices) /\ Shelled(pieces[i])
    BY DEF MInv, TypeOK, AllShelled
  <2>2. \A j \in 1..Len(pieces[i]) : pieces[i][j] \in Slices
    BY <2>1
  <2> QED
    BY <2>1, <2>2 DEF Slices
<1> QED
  BY <1>1, MInvariant, PTL

\* For every request and every place where an export fails: what arrived is a
\* beginning of the request, and all of it when success is reported.
THEOREM ArrivesWithoutHoles == Spec => []ArrivesInOrder
BY MInvariant, PTL DEF MInv
=============================================================================
