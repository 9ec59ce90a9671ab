---------------------------- MODULE MetricsExport ----------------------------
(***************************************************************************)
(* One OTLP metrics export of zk-verifier: split_request                   *)
(* (src/otel_split.rs) cuts the request into pieces the Telemetry API      *)
(* accepts, and GoogleAuthClient::send_bytes (src/otel_push.rs) sends them *)
(* one after the other and reports one response for all.                   *)
(*                                                                         *)
(* A request is the sequence of its metrics in order, each with the        *)
(* positions of its resource and scope and its number of points.  A piece  *)
(* is a sequence of slices of metrics, each with the shell it is filed in: *)
(* the shell is named by the place of its first slice and carries the      *)
(* resource and scope it was made from.                                    *)
(***************************************************************************)
EXTENDS Integers, Sequences, SequencesExt

CONSTANTS
  REQUESTS,                \* the requests the SDK may hand over
  MAX_POINTS_PER_REQUEST   \* the API's cap (200)

ASSUME CapAssumption == MAX_POINTS_PER_REQUEST \in Nat \ {0}

\* usize::MAX: no shell is open.
NoShell == 0

\* a's shell is b's or comes before it in the request.
NotAfter(a, b) == a.ri < b.ri \/ (a.ri = b.ri /\ a.si <= b.si)

\* A request lists its resources, each its scopes, and each their metrics: the
\* metrics of a scope are together, and so are the scopes of a resource.
ASSUME RequestsAssumption ==
  \A q \in REQUESTS :
    /\ q \in Seq([ri : Nat \ {NoShell}, si : Nat \ {NoShell}, n : Nat])
    /\ \A i, j \in 1..Len(q) : i < j => NotAfter(q[i], q[j])

VARIABLES
  metrics,         \* the request: a sequence of [ri, si, n]
  stage,           \* where send_bytes is
  mi,              \* the metric being cut
  start,           \* its points already cut
  current,         \* the open piece
  current_points,  \* its points
  cur_ri, cur_si,  \* the source positions its open shells mirror
  pieces,          \* the pieces that are ready
  sent,            \* how many were sent
  received,        \* the slices the API took, in order
  report           \* what the SDK is told

splitVars == <<mi, start, current, current_points, cur_ri, cur_si>>
sendVars == <<sent, received>>
vars == <<metrics, stage, splitVars, pieces, sendVars, report>>

-----------------------------------------------------------------------------

\* The points from + 1 to "to" of metric m, in a shell (metric_slice).
Filed(shell, ri, si, m, from, to) ==
  [shell |-> shell, ri |-> ri, si |-> si, metric |-> m, from |-> from, to |-> to]

\* The sum of a sequence of counts.
Sum(q) ==
  LET sum[i \in 0..Len(q)] == IF i = 0 THEN 0 ELSE sum[i - 1] + q[i]
  IN  sum[Len(q)]

\* point_count, over a piece.
Points(piece) == Sum([i \in 1..Len(piece) |-> piece[i].to - piece[i].from])

Total == Sum([i \in 1..Len(metrics) |-> metrics[i].n])

\* The request as it came.
Whole ==
  [i \in 1..Len(metrics) |->
     LET m == metrics[i]
         first == CHOOSE j \in 1..i :
                    /\ metrics[j].ri = m.ri /\ metrics[j].si = m.si
                    /\ \A k \in 1..j - 1 : <<metrics[k].ri, metrics[k].si>> # <<m.ri, m.si>>
     IN  Filed(first, m.ri, m.si, i, 0, m.n)]

Init ==
  /\ metrics \in REQUESTS
  /\ stage = "token"
  /\ mi = 1 /\ start = 0
  /\ current = <<>> /\ current_points = 0
  /\ cur_ri = NoShell /\ cur_si = NoShell
  /\ pieces = <<>>
  /\ sent = 0 /\ received = <<>>
  /\ report = "none"

-----------------------------------------------------------------------------
(* send_bytes, up to the split.                                            *)

NoToken ==
  /\ stage = "token"
  /\ stage' = "over" /\ report' = "error"
  /\ UNCHANGED <<metrics, splitVars, pieces, sendVars>>

\* The request is within the cap: it goes out as it came.
WithinCap ==
  /\ stage = "token"
  /\ Total <= MAX_POINTS_PER_REQUEST
  /\ pieces' = <<Whole>>
  /\ stage' = "sending"
  /\ UNCHANGED <<metrics, splitVars, sendVars, report>>

OverCap ==
  /\ stage = "token"
  /\ Total > MAX_POINTS_PER_REQUEST
  /\ stage' = "splitting"
  /\ UNCHANGED <<metrics, splitVars, pieces, sendVars, report>>

-----------------------------------------------------------------------------
(* The loops of split_request.                                             *)

\* Mutant of Full: the slice that fills the piece is not counted.
FullTooLate(points) == current_points >= MAX_POINTS_PER_REQUEST /\ current_points > 0

\* The slice does not fit the open piece.
Full(points) == current_points + points > MAX_POINTS_PER_REQUEST /\ current_points > 0

\* Mutant of SameShell: only the scope's position is compared.
SameScope(m, ri, si) == si = m.si

\* The open shells mirror the metric's own resource and scope.
SameShell(m, ri, si) == ri = m.ri /\ si = m.si

\* The piece with a slice of metric i more: in the open shell if it is the
\* metric's, in a new one otherwise.
File(piece, i, from, to, same) ==
  LET open == Last(piece)
  IN  Append(piece,
        IF same THEN Filed(open.shell, open.ri, open.si, i, from, to)
        ELSE Filed(Len(piece) + 1, metrics[i].ri, metrics[i].si, i, from, to))

\* Mutant of CutSlice: a metric larger than the cap is cut to it once.
CutSliceOnce ==
  /\ stage = "splitting" /\ mi <= Len(metrics)
  /\ start < metrics[mi].n
  /\ LET m == metrics[mi]
         end == IF start + MAX_POINTS_PER_REQUEST < m.n THEN start + MAX_POINTS_PER_REQUEST ELSE m.n
         points == end - start
         full == Full(points)
         ri == IF full THEN NoShell ELSE cur_ri
         si == IF full THEN NoShell ELSE cur_si
     IN  /\ pieces' = IF full THEN Append(pieces, current) ELSE pieces
         /\ current' = File(IF full THEN <<>> ELSE current, mi, start, end,
                            SameShell(m, ri, si))
         /\ current_points' = (IF full THEN 0 ELSE current_points) + points
         /\ cur_ri' = m.ri /\ cur_si' = m.si
         /\ mi' = mi + 1 /\ start' = 0
  /\ UNCHANGED <<metrics, stage, sendVars, report>>

\* One turn of the inner loop: the next slice of the metric, at most a whole
\* piece, closes the open piece if it does not fit.
CutSlice ==
  /\ stage = "splitting" /\ mi <= Len(metrics)
  /\ start < metrics[mi].n
  /\ LET m == metrics[mi]
         end == IF start + MAX_POINTS_PER_REQUEST < m.n THEN start + MAX_POINTS_PER_REQUEST ELSE m.n
         points == end - start
         full == Full(points)
         ri == IF full THEN NoShell ELSE cur_ri
         si == IF full THEN NoShell ELSE cur_si
     IN  /\ pieces' = IF full THEN Append(pieces, current) ELSE pieces
         /\ current' = File(IF full THEN <<>> ELSE current, mi, start, end,
                            SameShell(m, ri, si))
         /\ current_points' = (IF full THEN 0 ELSE current_points) + points
         /\ cur_ri' = m.ri /\ cur_si' = m.si
         /\ start' = end
         /\ mi' = mi
  /\ UNCHANGED <<metrics, stage, sendVars, report>>

\* A metric is done, or had no points to begin with.
NextMetric ==
  /\ stage = "splitting" /\ mi <= Len(metrics)
  /\ start = metrics[mi].n
  /\ mi' = mi + 1 /\ start' = 0
  /\ UNCHANGED <<metrics, stage, current, current_points, cur_ri, cur_si, pieces,
                 sendVars, report>>

\* The last piece is closed.
SplitEnds ==
  /\ stage = "splitting" /\ mi > Len(metrics)
  /\ pieces' = IF current_points > 0 THEN Append(pieces, current) ELSE pieces
  /\ stage' = "sending"
  /\ UNCHANGED <<metrics, splitVars, sendVars, report>>

-----------------------------------------------------------------------------
(* Sending.  Each request is bounded by HTTP_TIMEOUT.                      *)

\* The API takes a piece, wholesale.
Accepted ==
  /\ stage = "sending" /\ sent < Len(pieces)
  /\ Points(pieces[sent + 1]) <= MAX_POINTS_PER_REQUEST
  /\ received' = received \o pieces[sent + 1]
  /\ sent' = sent + 1
  /\ UNCHANGED <<metrics, stage, splitVars, pieces, report>>

\* Mutant of Rejected: the rest is sent all the same.
RejectedGoesOn ==
  /\ stage = "sending" /\ sent < Len(pieces)
  /\ sent' = sent + 1
  /\ UNCHANGED <<metrics, stage, splitVars, pieces, received, report>>

\* The API refuses a piece, wholesale: the rest is skipped.
Rejected ==
  /\ stage = "sending" /\ sent < Len(pieces)
  /\ sent' = sent + 1
  /\ stage' = "over" /\ report' = "rejected"
  /\ UNCHANGED <<metrics, splitVars, pieces, received>>

\* The call itself fails, whether or not the API got the piece.
CallFails ==
  /\ stage = "sending" /\ sent < Len(pieces)
  /\ received' \in {received, received \o pieces[sent + 1]}
  /\ sent' = sent + 1
  /\ stage' = "over" /\ report' = "error"
  /\ UNCHANGED <<metrics, splitVars, pieces>>

\* Every piece was accepted: the last response is the export's.
AllSent ==
  /\ stage = "sending" /\ sent = Len(pieces)
  /\ stage' = "over" /\ report' = "ok"
  /\ UNCHANGED <<metrics, splitVars, pieces, sendVars>>

Over == stage = "over" /\ UNCHANGED vars

Step ==
  \/ NoToken \/ WithinCap \/ OverCap
  \/ CutSlice \/ NextMetric \/ SplitEnds
  \/ Accepted \/ Rejected \/ CallFails \/ AllSent

Next == Step \/ Over

Spec == Init /\ [][Next]_vars

-----------------------------------------------------------------------------

\* Every piece holds at most the cap, a piece that was cut holds at least one
\* point, and there is a piece to send ("split_request never returns zero
\* pieces"): the API never has to refuse one for its size.
PiecesFit ==
  /\ \A i \in 1..Len(pieces) :
       /\ Points(pieces[i]) <= MAX_POINTS_PER_REQUEST
       /\ Points(pieces[i]) > 0 \/ Total = 0
  /\ stage = "sending" => pieces # <<>>

Empty(ms) == \A m \in ms : metrics[m].n = 0

\* The slices follow one another from the first point on, without a hole, an
\* overlap or a change of order.
Consecutive(slices) ==
  \A i \in 1..Len(slices) :
    LET b == slices[i]
    IN  IF i = 1 THEN b.from = 0 /\ Empty(1..b.metric - 1)
        ELSE LET a == slices[i - 1]
             IN  IF a.metric = b.metric THEN a.to = b.from
                 ELSE /\ a.to = metrics[a.metric].n /\ b.from = 0
                      /\ a.metric < b.metric /\ Empty(a.metric + 1..b.metric - 1)

\* They end with the last point of metric m.
ReachesEndOf(slices, m) ==
  IF slices = <<>> THEN Empty(1..m)
  ELSE LET a == Last(slices)
       IN  a.to = metrics[a.metric].n /\ Empty(a.metric + 1..m)

\* Cutting loses, doubles and reorders nothing: the pieces and the open one hold
\* together the points so far, in their order, and at the end all of them.
EveryPointOnce ==
  LET open == IF stage = "splitting" THEN current ELSE <<>>
      slices == FlattenSeq(pieces) \o open
  IN  /\ Consecutive(slices)
      /\ stage = "splitting" /\ start = 0 => ReachesEndOf(slices, mi - 1)
      /\ stage = "sending" => ReachesEndOf(slices, Len(metrics))

\* Every slice is filed under its own resource and scope, in every piece anew,
\* and no piece carries the same shell twice.
ShellsKept ==
  \A i \in 1..Len(pieces) :
    LET piece == pieces[i]
    IN  /\ \A j \in 1..Len(piece) :
             LET m == metrics[piece[j].metric]
             IN  piece[j].ri = m.ri /\ piece[j].si = m.si
        /\ \A j, k \in 1..Len(piece) :
             piece[j].shell = piece[k].shell
               <=> <<piece[j].ri, piece[j].si>> = <<piece[k].ri, piece[k].si>>

\* What arrives has no hole, whatever is refused or fails on the way, and an
\* export reported as a success arrived whole.
ArrivesInOrder ==
  /\ Consecutive(received)
  /\ report = "ok" => ReachesEndOf(received, Len(metrics))
=============================================================================
