------------------------------- MODULE LoadRun --------------------------------
(***************************************************************************)
(* A run of the load generator (scripts/stress_verify.rs, "run") against   *)
(* the service: VerifyBatch composed with its client.                      *)
(*                                                                         *)
(* The tool sends one self-check request, scrapes the metrics, lets its    *)
(* workers pull requests off a shared counter while a probe polls the      *)
(* service, joins them, stops the probe, scrapes again and reports.  Its   *)
(* HTTP client gives up on a request after 300 seconds, which the service  *)
(* notices later, as a disconnect; the request may even arrive after that. *)
(***************************************************************************)
EXTENDS VerifyBatch

CONSTANTS
  Workers,      \* the worker tasks, --concurrency of them
  REQUESTS,     \* --requests
  METRICS_URL,  \* whether there is a --metrics-url
  PROBE,        \* whether there is a --probe
  EARLIER       \* requests the service had shed before this run

SELF_CHECK == -1

\* Request i of the load is the one with counter value i.
Load == 0..REQUESTS - 1

ASSUME LoadAssumption ==
  /\ IsFiniteSet(Workers)
  /\ REQUESTS \in Nat \ {0}
  /\ Requests = Load \union {SELF_CHECK}
  /\ METRICS_URL \in BOOLEAN /\ PROBE \in BOOLEAN
  /\ EARLIER \in Nat

VARIABLES
  phase,     \* where the tool is
  counter,   \* the shared counter
  worker,    \* where each worker is
  current,   \* the request it sent last
  out,       \* the samples it took
  lost,      \* requests the client gave up on
  stop,      \* the probe's stop flag
  probe,     \* where the probe is
  rejected,  \* zk_verify_admission_rejected_total of the service
  before,    \* the scrape before the load
  after      \* the scrape after it

service == <<vars, rejected>>
workerVars == <<counter, worker, current, out>>
toolVars == <<phase, stop, probe, before, after>>
loadVars == <<service, workerVars, toolVars, lost>>

-----------------------------------------------------------------------------

\* The status of a sample, as far as the report tells them apart: 0 is no
\* answer and 500 stands for every error but the 503 of a shed request, which
\* persist_cts never sends.
StatusOf(what) ==
  CASE what = "Success" -> 200
    [] what = "ServerBusy" -> 503
    [] OTHER -> 500

\* What the report finds in a body: in one without the metrics, zeros.
Unscraped(read) == [read |-> read, rejected |-> 0, in_flight |-> 0]

\* A scrape that failed, or was not asked for.
NoScrape == Unscraped("none")

LoadInit ==
  /\ Init
  /\ phase = "self_check"
  /\ counter = 0
  /\ worker = [w \in Workers |-> "pulling"]
  /\ current = [w \in Workers |-> SELF_CHECK]
  /\ out = [w \in Workers |-> <<>>]
  /\ lost = {}
  /\ stop = FALSE
  /\ probe = "off"
  /\ rejected = EARLIER
  /\ before = NoScrape /\ after = NoScrape

-----------------------------------------------------------------------------
(* The service, with the requests the tool has sent.                       *)

Sent == {SELF_CHECK} \union {i \in Load : i < counter}

\* The request arrives, a lost one perhaps late.
Arrive(r) ==
  /\ r \in Sent
  /\ \/ Admit(r) /\ UNCHANGED rejected
     \/ Shed(r) /\ rejected' = rejected + 1
  /\ UNCHANGED <<workerVars, toolVars, lost>>

Serve(step) == step /\ UNCHANGED <<rejected, workerVars, toolVars, lost>>

HandlerServes(r) == Serve(HandlerStep(r))
TaskServes(r) == Serve(TaskStep(r))
ExternalServes(r) == Serve(FinishExternal(r))
StoreCtsServes(r) == Serve(FinishStoreCts(r))

\* The service notices that the client of a request has gone.
Notice(r) == r \in lost /\ Serve(Disconnect(r))

-----------------------------------------------------------------------------
(* The tool.                                                               *)

\* The self-check succeeded.
SelfCheckOk ==
  /\ phase = "self_check"
  /\ reply[SELF_CHECK] = "Success"
  /\ phase' = "before"
  /\ UNCHANGED <<service, workerVars, stop, probe, before, after, lost>>

\* Anything else is a panic: another status, or no answer.
SelfCheckFails ==
  /\ phase = "self_check"
  /\ phase' = "panicked"
  /\ lost' = lost \union {SELF_CHECK}
  /\ UNCHANGED <<service, workerVars, stop, probe, before, after>>

\* scrape: the metrics, no answer, or any other body there was, since its
\* status is not looked at.
Snapshots ==
  IF METRICS_URL
    THEN {[read |-> "metrics", rejected |-> rejected, in_flight |-> in_flight],
          NoScrape, Unscraped("other")}
    ELSE {NoScrape}

\* The first scrape; the probe and the workers are spawned.
ScrapeBefore ==
  /\ phase = "before"
  /\ before' \in Snapshots
  /\ probe' = IF PROBE THEN "polling" ELSE "off"
  /\ phase' = "load"
  /\ UNCHANGED <<service, workerVars, stop, after, lost>>

\* Mutant of Pull: the counter is read and written in two steps, and an
\* increment of another worker between them is lost.
PullUnshared(w) ==
  /\ phase = "load" /\ worker[w] = "pulling"
  /\ counter' \in {counter, counter + 1}
  /\ IF counter >= REQUESTS
       THEN worker' = [worker EXCEPT ![w] = "done"] /\ UNCHANGED current
       ELSE /\ worker' = [worker EXCEPT ![w] = "sending"]
            /\ current' = [current EXCEPT ![w] = counter]
  /\ UNCHANGED <<service, out, toolVars, lost>>

\* fetch_add: the worker sends the next request, or is done.
Pull(w) ==
  /\ phase = "load" /\ worker[w] = "pulling"
  /\ counter' = counter + 1
  /\ IF counter >= REQUESTS
       THEN worker' = [worker EXCEPT ![w] = "done"] /\ UNCHANGED current
       ELSE /\ worker' = [worker EXCEPT ![w] = "sending"]
            /\ current' = [current EXCEPT ![w] = counter]
  /\ UNCHANGED <<service, out, toolVars, lost>>

Sample(w, status) ==
  /\ out' = [out EXCEPT ![w] = Append(@, [request |-> current[w], status |-> status])]
  /\ worker' = [worker EXCEPT ![w] = "pulling"]

\* The answer is read to its end.
ReadAnswer(w) ==
  /\ worker[w] = "sending"
  /\ reply[current[w]] # "none"
  /\ Sample(w, StatusOf(reply[current[w]]))
  /\ UNCHANGED <<service, counter, current, toolVars, lost>>

\* Mutant of GiveUp: only a refused connection is an error, nothing times out.
GiveUpUnconnected(w) ==
  /\ worker[w] = "sending"
  /\ pc[current[w]] = "new"
  /\ Sample(w, 0)
  /\ lost' = lost \union {current[w]}
  /\ UNCHANGED <<service, counter, current, toolVars>>

\* No connection, a connection that broke, or the client's timeout.
GiveUp(w) ==
  /\ worker[w] = "sending"
  /\ Sample(w, 0)
  /\ lost' = lost \union {current[w]}
  /\ UNCHANGED <<service, counter, current, toolVars>>

\* Every worker is joined, and the probe told to stop.
Joined ==
  /\ phase = "load"
  /\ \A w \in Workers : worker[w] = "done"
  /\ stop' = TRUE
  /\ phase' = "probe"
  /\ UNCHANGED <<service, workerVars, probe, before, after, lost>>

\* The probe polls, whatever comes of it, until it finds the flag set.
Probe ==
  /\ probe = "polling" /\ stop
  /\ probe' = "stopped"
  /\ UNCHANGED <<service, workerVars, phase, stop, before, after, lost>>

ProbeJoined ==
  /\ phase = "probe" /\ probe \in {"off", "stopped"}
  /\ phase' = "after"
  /\ UNCHANGED <<service, workerVars, stop, probe, before, after, lost>>

\* Mutant of ScrapeAfter: the second scrape does not wait for the workers.
ScrapeAfterEarly ==
  /\ phase \in {"load", "after"}
  /\ after' \in (IF after = NoScrape THEN Snapshots ELSE {after})
  /\ phase' = IF phase = "after" THEN "reported" ELSE phase
  /\ UNCHANGED <<service, workerVars, stop, probe, before, lost>>

\* The second scrape, and the report.
ScrapeAfter ==
  /\ phase = "after"
  /\ after' \in Snapshots
  /\ phase' = "reported"
  /\ UNCHANGED <<service, workerVars, stop, probe, before, lost>>

-----------------------------------------------------------------------------

\* The tool's main task; the probe and the workers are tasks of their own.
ToolStep ==
  SelfCheckOk \/ ScrapeBefore \/ Joined \/ ProbeJoined \/ ScrapeAfter

WorkerStep(w) == Pull(w) \/ ReadAnswer(w)

Over == phase \in {"reported", "panicked"} /\ UNCHANGED loadVars

LoadNext ==
  \/ \E r \in Requests :
       \/ Arrive(r) \/ HandlerServes(r) \/ TaskServes(r)
       \/ ExternalServes(r) \/ StoreCtsServes(r) \/ Notice(r)
  \/ ToolStep \/ SelfCheckFails \/ Probe
  \/ \E w \in Workers : WorkerStep(w) \/ GiveUp(w)
  \/ Over

LoadSpec == LoadInit /\ [][LoadNext]_loadVars

\* What VerifyBatch assumes of the service, that it notices a disconnect, and
\* that every task of the tool is polled.  No answer and no timeout is owed.
LoadFairness ==
  /\ \A r \in Requests :
       /\ WF_loadVars(HandlerServes(r)) /\ WF_loadVars(TaskServes(r))
       /\ WF_loadVars(ExternalServes(r)) /\ WF_loadVars(Notice(r))
  /\ WF_loadVars(ToolStep) /\ WF_loadVars(Probe)
  /\ \A w \in Workers : WF_loadVars(WorkerStep(w))

FairLoadSpec == LoadSpec /\ LoadFairness

-----------------------------------------------------------------------------
(* The report.                                                             *)

\* Every sample, by its worker and its place.
Samples ==
  {s \in Workers \X (1..REQUESTS) : s[2] \in DOMAIN out[s[1]]}

\* An entry of the status histogram.
Histogram(status) ==
  Cardinality({s \in Samples : out[s[1]][s[2]].status = status})

\* Every request of the load is sampled once and by one worker, however the
\* workers interleave and whatever is lost: none is skipped at the counter's
\* end, and the joined results are the whole run ("requests" of the report).
EveryRequestSampledOnce ==
  \A i \in Load :
    Cardinality({s \in Samples : out[s[1]][s[2]].request = i}) =
      IF i < counter /\ \A w \in Workers : ~(worker[w] = "sending" /\ current[w] = i)
        THEN 1 ELSE 0

\* The report prints the diff of the scrapes when both had a body.
Diffed == phase = "reported" /\ before.read # "none" /\ after.read # "none"

Difference == after.rejected - before.rejected

\* What the report takes from the service's metrics agrees with what it took
\* from the answers, up to the requests it lost: rejections are the 503s, and a
\* verification that still runs belongs to a request nobody waited for.  Each
\* bound rests on one scrape having been of the metrics: a foreign body can
\* make the diff too large before the load and too small after it, never the
\* other way about, however often the service shed before this run.
ReportAgrees ==
  Diffed =>
    /\ after.read = "metrics" => Histogram(503) <= Difference
    /\ before.read = "metrics" => Difference <= Histogram(503) + Histogram(0)
    /\ after.in_flight <= Histogram(0)

\* Requests a worker waits for.
Awaited == {current[w] : w \in {v \in Workers : worker[v] = "sending"}}

\* A request is shed only when the cap is full of others, each one awaited by a
\* worker or given up and still held by the service: no answer is out before
\* its permit is back, and no permit stays behind.
ShedsOnlyOverCap ==
  [][rejected' > rejected =>
       MAX_INFLIGHT <= Cardinality(Admitted \intersect (lost \union Awaited))]_loadVars

\* A client that times out always comes to its report, probe and all, even when
\* ct-server never answers.
RunEnds ==
  (\A w \in Workers : WF_loadVars(GiveUp(w)))
    => (phase = "load" ~> phase = "reported")

\* After a run nothing of it stays in the service: every permit comes home and
\* stays there, those of lost requests, of requests that arrived late and of
\* orphaned verifications too.
NothingLeftBehind ==
  phase = "reported"
    ~> [](/\ admit_free = MAX_INFLIGHT
          /\ verify_free = VERIFY_CONCURRENCY
          /\ in_flight = 0)
=============================================================================
