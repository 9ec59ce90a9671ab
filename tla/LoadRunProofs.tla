--------------------------- MODULE LoadRunProofs ----------------------------
(***************************************************************************)
(* Theorems about a run of the load generator, for every set of workers,   *)
(* every number of requests and every pair of limits of the service.       *)
(*                                                                         *)
(* The service under load is VerifyBatch with some of its requests not     *)
(* sent yet, so its invariant holds throughout.  What the tool adds is who *)
(* owns a request: the counter, one worker, or one sample.                 *)
(***************************************************************************)
EXTENDS LoadRun, VerifyBatchProofs

-----------------------------------------------------------------------------
(* The service under load is the service.                                  *)

\* Whatever the tool does, the service takes a step of its own or none.
LEMMA ServiceStep == [LoadNext]_loadVars => [Next]_vars
<1> SUFFICES ASSUME [LoadNext]_loadVars PROVE [Next]_vars
  OBVIOUS
<1>1. ASSUME NEW r \in Requests, Arrive(r) PROVE Next
  BY <1>1 DEF Arrive, Next
<1>2. ASSUME NEW r \in Requests,
             \/ HandlerServes(r) \/ TaskServes(r) \/ ExternalServes(r)
             \/ StoreCtsServes(r) \/ Notice(r)
      PROVE  Next
  BY <1>2 DEF HandlerServes, TaskServes, ExternalServes, StoreCtsServes, Notice,
              Serve, Next
<1>3. CASE ToolStep \/ SelfCheckFails \/ Probe
  BY <1>3 DEF ToolStep, SelfCheckOk, ScrapeBefore, Joined, ProbeJoined,
              ScrapeAfter, SelfCheckFails, Probe, service
<1>4. ASSUME NEW w \in Workers, WorkerStep(w) \/ GiveUp(w) PROVE UNCHANGED vars
  BY <1>4 DEF WorkerStep, Pull, ReadAnswer, GiveUp, service
<1>5. CASE Over \/ UNCHANGED loadVars
  BY <1>5 DEF Over, loadVars, service
<1> QED BY <1>1, <1>2, <1>3, <1>4, <1>5 DEF LoadNext

\* A run of the tool is a run of VerifyBatch: every promise the service keeps
\* for any clients, it keeps for this one (the router stress_verify.rs calls).
THEOREM LoadImplementsVerifyBatch == LoadSpec => Spec
<1>1. LoadInit => Init
  BY DEF LoadInit
<1> QED BY <1>1, ServiceStep, PTL DEF LoadSpec, Spec

LEMMA ServiceInvariant == LoadSpec => []IInv
BY LoadImplementsVerifyBatch, Invariant, PTL

-----------------------------------------------------------------------------
(* The inductive invariant.                                                *)

Phases == {"self_check", "panicked", "before", "load", "probe", "after", "reported"}

Scrapes == [read : {"none", "metrics", "other"}, rejected : Int, in_flight : Int]

\* What a worker notes of a request.
SampleSet == [request : Load, status : {0, 200, 500, 503}]

LoadTypeInv ==
  /\ phase \in Phases
  /\ counter \in Nat
  /\ worker \in [Workers -> {"pulling", "sending", "done"}]
  /\ current \in [Workers -> Requests]
  /\ out \in [Workers -> Seq(SampleSet)]
  /\ lost \in SUBSET Requests
  /\ rejected \in Nat
  /\ before \in Scrapes
  /\ after \in Scrapes

\* A worker took a sample for each of some requests it pulled, in the counter's
\* order, so it has no more samples than the counter has been read.
SamplesFit ==
  \A w \in Workers :
    /\ Len(out[w]) <= REQUESTS
    /\ Len(out[w]) <= counter
    /\ worker[w] = "sending" =>
         /\ current[w] \in Load
         /\ Len(out[w]) <= current[w]
         /\ current[w] < counter

\* The request of a sample.
Asked(s) == out[s[1]][s[2]].request
StatusIn(s) == out[s[1]][s[2]].status

\* A request that was pulled is with one worker or in one sample, never both.
Owned ==
  /\ \A v, w \in Workers :
       worker[v] = "sending" /\ worker[w] = "sending" /\ current[v] = current[w]
         => v = w
  /\ \A s, t \in Samples : Asked(s) = Asked(t) => s = t
  /\ \A s \in Samples, w \in Workers :
       worker[w] = "sending" => Asked(s) # current[w]
  /\ \A s \in Samples : Asked(s) \in Load /\ Asked(s) < counter
  /\ \A i \in Load :
       i < counter =>
         \/ \E w \in Workers : worker[w] = "sending" /\ current[w] = i
         \/ \E s \in Samples : Asked(s) = i

\* A sample is the answer the client was sent, or the request was given up.
SamplesTrue ==
  \A s \in Samples :
    \/ StatusIn(s) = 0 /\ Asked(s) \in lost
    \/ reply[Asked(s)] # "none" /\ StatusIn(s) = StatusOf(reply[Asked(s)])

\* The service knows nothing of a request not sent yet.
Unsent == \A i \in Load : counter <= i => pc[i] = "new"

\* What each phase of the tool relies on.
PhaseInv ==
  /\ phase \in {"self_check", "panicked", "before"} => counter = 0
  /\ phase \notin {"self_check", "panicked"} => reply[SELF_CHECK] = "Success"
  /\ phase = "panicked" => SELF_CHECK \in lost
  /\ phase \in {"probe", "after", "reported"} =>
       \A w \in Workers : worker[w] = "done"
  /\ before.rejected = IF before.read = "metrics" THEN EARLIER ELSE 0

Busy == {r \in Requests : reply[r] = "ServerBusy"}

LoadInv ==
  /\ IInv
  /\ LoadTypeInv
  /\ SamplesFit
  /\ Owned
  /\ SamplesTrue
  /\ Unsent
  /\ PhaseInv
  /\ rejected = EARLIER + Cardinality(Busy)
  /\ ReportAgrees

-----------------------------------------------------------------------------
(* What a step can do: the service moves, the tool's main task or its probe *)
(* moves, or a worker does.                                                *)

\* An answer is final, and a request that is not in the service enters it only
\* by arriving.
LEMMA AnswersAreFinal ==
  ASSUME IInv, NEW r \in Requests,
         \/ HandlerStep(r) \/ TaskStep(r) \/ FinishExternal(r)
         \/ FinishStoreCts(r) \/ Disconnect(r),
         NEW q \in Requests
  PROVE  /\ pc[q] = "new" => pc'[q] = "new"
         /\ reply[q] # "none" => reply'[q] = reply[q]
         /\ reply'[q] = "ServerBusy" => reply[q] = "ServerBusy"
<1> USE DEF IInv, TypeInv, Holding, Awaiting, Finished, OnCpu, Replies
<1>1. CASE RejectContract(r) \/ JoinFailed(r) \/ FinishPersist(r)
  BY <1>1 DEF RejectContract, JoinFailed, FinishPersist, Answer, Stages
<1>2. CASE AcquireNow(r) \/ Wait(r) \/ Resume(r) \/ BeginPersist(r)
  BY <1>2 DEF AcquireNow, Wait, Resume, BeginPersist
<1>3. CASE \/ StartTask(r) \/ FinishRun(r)
           \/ FinishExternal(r) \/ FinishStoreCts(r)
  BY <1>3 DEF StartTask, FinishRun, FinishExternal, FinishStoreCts
<1>4. CASE ReleaseCpu(r)
  <2>1. \/ pc' = pc
        \/ \E h \in Requests : pc[h] = "waiting" /\ pc' = [pc EXCEPT ![h] = "granted"]
    BY <1>4, ReleaseVerifyControl DEF ReleaseCpu
  <2> QED BY <1>4, <2>1 DEF ReleaseCpu
<1>5. CASE Disconnect(r)
  <2>1. reply' = reply
    BY <1>5 DEF Disconnect
  <2>2. CASE DropWaiter(r) \/ DropLater(r)
    BY <2>1, <2>2 DEF DropWaiter, DropLater, Gone
  <2>3. CASE DropGranted(r)
    <3>1. /\ pc[r] = "granted"
          /\ \/ pc' = Gone(r)
             \/ \E h \in Requests : /\ pc[h] = "waiting"
                                    /\ pc' = [Gone(r) EXCEPT ![h] = "granted"]
      BY <2>3, ReleaseVerifyControl DEF DropGranted, Gone
    <3> QED BY <2>1, <3>1 DEF Gone
  <2> QED BY <1>5, <2>2, <2>3 DEF Disconnect
<1> QED
  BY <1>1, <1>2, <1>3, <1>4, <1>5 DEF HandlerStep, TaskStep

\* The service moves: what the tool sent and took stays.
ServiceTurn ==
  /\ UNCHANGED <<workerVars, toolVars, lost>>
  /\ \A q \in Requests : reply[q] # "none" => reply'[q] = reply[q]
  /\ \A q \in Requests : pc[q] = "new" /\ q \notin Sent => pc'[q] = "new"
  /\ \/ rejected' = rejected /\ Busy' = Busy
     \/ \E r \in Sent \intersect Requests :
          /\ Shed(r)
          /\ r \notin Busy /\ Busy' = Busy \union {r}
          /\ rejected' = rejected + 1

\* The tool's main task or its probe moves.
MainTurn ==
  \/ SelfCheckOk \/ SelfCheckFails \/ ScrapeBefore \/ Joined
  \/ Probe \/ ProbeJoined \/ ScrapeAfter

\* Nothing else moves.
LEMMA Turns ==
  ASSUME IInv, [LoadNext]_loadVars
  PROVE  \/ ServiceTurn
         \/ MainTurn
         \/ \E w \in Workers : Pull(w) \/ ReadAnswer(w) \/ GiveUp(w)
<1>1. ASSUME NEW r \in Requests, Arrive(r) PROVE ServiceTurn
  <2> USE DEF IInv, TypeInv, Holding, Awaiting, Finished, Replies
  <2>1. r \in Sent /\ UNCHANGED <<workerVars, toolVars, lost>>
    BY <1>1 DEF Arrive
  <2>2. CASE Admit(r) /\ UNCHANGED rejected
    <3>1. Busy' = Busy /\ reply' = reply
      BY <2>2 DEF Admit, Busy
    <3>2. \A q \in Requests : pc[q] = "new" /\ q \notin Sent => pc'[q] = "new"
      BY <2>1, <2>2 DEF Admit
    <3> QED BY <2>1, <2>2, <3>1, <3>2 DEF ServiceTurn
  <2>3. CASE Shed(r) /\ rejected' = rejected + 1
    <3>1. reply[r] = "none"
      BY <2>3 DEF Shed, Stages
    <3>2. r \notin Busy /\ Busy' = Busy \union {r}
      BY <2>3, <3>1 DEF Shed, Busy
    <3>3. \A q \in Requests : reply[q] # "none" => reply'[q] = reply[q]
      BY <2>3, <3>1 DEF Shed
    <3>4. \A q \in Requests : pc[q] = "new" /\ q \notin Sent => pc'[q] = "new"
      BY <2>1, <2>3 DEF Shed
    <3> QED BY <2>1, <2>3, <3>2, <3>3, <3>4 DEF ServiceTurn
  <2> QED BY <1>1, <2>2, <2>3 DEF Arrive
<1>2. ASSUME NEW r \in Requests,
             \/ HandlerServes(r) \/ TaskServes(r) \/ ExternalServes(r)
             \/ StoreCtsServes(r) \/ Notice(r)
      PROVE  ServiceTurn
  <2>1. /\ UNCHANGED <<rejected, workerVars, toolVars, lost>>
        /\ \/ HandlerStep(r) \/ TaskStep(r) \/ FinishExternal(r)
           \/ FinishStoreCts(r) \/ Disconnect(r)
    BY <1>2 DEF HandlerServes, TaskServes, ExternalServes, StoreCtsServes,
                Notice, Serve
  <2>2. \A q \in Requests : /\ pc[q] = "new" => pc'[q] = "new"
                            /\ reply[q] # "none" => reply'[q] = reply[q]
                            /\ reply'[q] = "ServerBusy" => reply[q] = "ServerBusy"
    BY <2>1, AnswersAreFinal
  <2>3. Busy' = Busy
    BY <2>2 DEF Busy
  <2> QED BY <2>1, <2>2, <2>3 DEF ServiceTurn
<1>3. CASE Over \/ UNCHANGED loadVars
  <2>1. UNCHANGED <<vars, rejected, workerVars, toolVars, lost>>
    BY <1>3 DEF Over, loadVars, service
  <2> QED BY <2>1 DEF vars, ServiceTurn, Busy
<1> QED BY <1>1, <1>2, <1>3 DEF LoadNext, ToolStep, WorkerStep, MainTurn

\* A worker that takes a sample takes its next one, and no other sample moves.
LEMMA SampleTaken ==
  ASSUME LoadTypeInv, SamplesFit, NEW w \in Workers, worker[w] = "sending",
         NEW status \in {0, 200, 500, 503}, Sample(w, status)
  PROVE  \E n \in Samples' :
           /\ n \notin Samples
           /\ Samples' = Samples \union {n}
           /\ Asked(n)' = current[w] /\ StatusIn(n)' = status
           /\ \A s \in Samples : Asked(s)' = Asked(s) /\ StatusIn(s)' = StatusIn(s)
           /\ worker' = [worker EXCEPT ![w] = "pulling"]
           /\ Len(out'[w]) = Len(out[w]) + 1
           /\ \A v \in Workers : v # w => out'[v] = out[v]
           /\ out' \in [Workers -> Seq(SampleSet)]
<1> DEFINE e == [request |-> current[w], status |-> status]
           l == Len(out[w])
<1>1. /\ out[w] \in Seq(SampleSet) /\ e \in SampleSet
      /\ out' = [out EXCEPT ![w] = Append(out[w], e)]
      /\ worker' = [worker EXCEPT ![w] = "pulling"]
  <2>1. out[w] \in Seq(SampleSet)
    BY DEF LoadTypeInv
  <2>2. e \in SampleSet
    <3>1. current[w] \in Load
      BY DEF SamplesFit
    <3> QED
      BY <3>1 DEF SampleSet
  <2>3. /\ out' = [out EXCEPT ![w] = Append(out[w], e)]
        /\ worker' = [worker EXCEPT ![w] = "pulling"]
    BY DEF Sample
  <2> QED
    BY <2>1, <2>2, <2>3
<1>2. /\ l \in Nat /\ l + 1 \in 1..REQUESTS
  <2>1. l \in Nat
    BY <1>1, LenProperties
  <2>2. l <= current[w] /\ current[w] \in 0..REQUESTS - 1
    BY DEF SamplesFit, Load
  <2> QED BY <2>1, <2>2, LoadAssumption
<1> PICK n \in Workers \X (1..REQUESTS) : n = <<w, l + 1>>
  BY <1>2
<1>3. /\ Append(out[w], e) \in Seq(SampleSet)
      /\ Len(Append(out[w], e)) = l + 1
      /\ \A i \in 1..l : Append(out[w], e)[i] = out[w][i]
      /\ Append(out[w], e)[l + 1] = e
  BY <1>1, AppendProperties
<1>4. /\ out'[w] = Append(out[w], e)
      /\ \A v \in Workers : v # w => out'[v] = out[v]
      /\ out' \in [Workers -> Seq(SampleSet)]
  <2>1. out \in [Workers -> Seq(SampleSet)]
    BY DEF LoadTypeInv
  <2> HIDE DEF e
  <2> QED BY <1>1, <1>3, <2>1
<1>5. /\ DOMAIN out[w] = 1..l /\ DOMAIN out'[w] = 1..(l + 1)
  BY <1>1, <1>3, <1>4, LenProperties
<1>6. n \notin Samples /\ Samples' = Samples \union {n}
  <2>1. n \notin Samples
    BY <1>2, <1>5 DEF Samples
  <2>2. ASSUME NEW s \in Workers \X (1..REQUESTS)
        PROVE  s[2] \in DOMAIN out'[s[1]] <=> s[2] \in DOMAIN out[s[1]] \/ s = n
    <3>1. CASE s[1] = w
      <4>1. s = n <=> s[2] = l + 1
        BY <3>1
      <4> QED BY <1>2, <1>5, <3>1, <4>1
    <3>2. CASE s[1] # w
      BY <1>4, <3>2
    <3> QED BY <3>1, <3>2
  <2>3. n \in Workers \X (1..REQUESTS)
    BY <1>2
  <2> QED BY <2>1, <2>2, <2>3 DEF Samples
<1>7. ASSUME NEW s \in Samples
      PROVE  out'[s[1]][s[2]] = out[s[1]][s[2]]
  <2>1. s[1] \in Workers /\ s[2] \in DOMAIN out[s[1]]
    BY DEF Samples
  <2> HIDE DEF e
  <2>2. CASE s[1] = w
    <3>1. s[2] \in 1..l
      BY <1>5, <2>1, <2>2
    <3>2. Append(out[w], e)[s[2]] = out[w][s[2]]
      BY <1>3, <3>1
    <3> QED BY <1>4, <2>2, <3>2
  <2>3. CASE s[1] # w
    BY <1>4, <2>1, <2>3
  <2> QED BY <2>2, <2>3
<1>8. out'[n[1]][n[2]] = e
  BY <1>3, <1>4
<1>9. /\ Asked(n)' = current[w] /\ StatusIn(n)' = status
      /\ \A s \in Samples : Asked(s)' = Asked(s) /\ StatusIn(s)' = StatusIn(s)
  <2>1. e.request = current[w] /\ e.status = status
    OBVIOUS
  <2> HIDE DEF e
  <2>2. Asked(n)' = e.request /\ StatusIn(n)' = e.status
    BY <1>8 DEF Asked, StatusIn
  <2>3. ASSUME NEW s \in Samples
        PROVE  Asked(s)' = Asked(s) /\ StatusIn(s)' = StatusIn(s)
    BY <1>7 DEF Asked, StatusIn
  <2> QED BY <2>1, <2>2, <2>3
<1>10. n \in Samples' /\ Len(out'[w]) = l + 1
  BY <1>3, <1>4, <1>6
<1> HIDE DEF e
<1> QED BY <1>1, <1>4, <1>6, <1>9, <1>10

-----------------------------------------------------------------------------
(* Initially.                                                              *)

LEMMA LoadInvInit == LoadInit => LoadInv
<1> SUFFICES ASSUME LoadInit PROVE LoadInv
  OBVIOUS
<1>1. IInv
  BY IInvInit DEF LoadInit
<1>2. SELF_CHECK \in Requests
  BY LoadAssumption
<1>3. \A w \in Workers : out[w] = <<>> /\ Len(out[w]) = 0 /\ DOMAIN out[w] = {}
  BY EmptySeq DEF LoadInit
<1>4. LoadTypeInv
  <2>1. out \in [Workers -> Seq(SampleSet)]
    BY EmptySeq DEF LoadInit
  <2>2. NoScrape \in Scrapes
    BY DEF NoScrape, Unscraped, Scrapes
  <2> QED BY <1>2, <2>1, <2>2, LoadAssumption DEF LoadInit, LoadTypeInv, Phases
<1>5. Samples = {}
  BY <1>3 DEF Samples
<1>6. SamplesFit
  BY <1>3, LoadAssumption DEF LoadInit, SamplesFit
<1>7. Owned
  BY <1>5 DEF LoadInit, Owned, Load
<1>8. SamplesTrue
  BY <1>5 DEF SamplesTrue
<1>9. Unsent
  BY LoadAssumption DEF LoadInit, Init, Unsent
<1>10. PhaseInv
  BY DEF LoadInit, PhaseInv, NoScrape, Unscraped
<1>11. rejected = EARLIER + Cardinality(Busy)
  <2>1. Busy = {}
    BY DEF LoadInit, Init, Busy
  <2> QED BY <2>1, FS_EmptySet, LoadAssumption DEF LoadInit
<1>12. ReportAgrees
  BY DEF LoadInit, ReportAgrees, Diffed
<1> QED
  BY <1>1, <1>4, <1>6, <1>7, <1>8, <1>9, <1>10, <1>11, <1>12 DEF LoadInv

-----------------------------------------------------------------------------
(* Types and the bounds of the samples.                                    *)

\* The self-check is no request of the load.
LEMMA RequestsOfLoad ==
  /\ SELF_CHECK \in Requests /\ SELF_CHECK \notin Load
  /\ Load \subseteq Requests /\ Load \subseteq Nat
  /\ \A q \in Requests : q # SELF_CHECK => q \in Load
  /\ LoadTypeInv => \A q \in Requests \ Sent : q \in Load /\ counter <= q
BY LoadAssumption DEF Load, SELF_CHECK, Sent, LoadTypeInv

\* A status of 503 stands for a shed request and nothing else.
LEMMA StatusOfReply ==
  ASSUME NEW what \in Replies, what # "none"
  PROVE  /\ StatusOf(what) \in {200, 500, 503}
         /\ StatusOf(what) = 503 <=> what = "ServerBusy"
BY DEF Replies, StatusOf

\* A worker reads the answer of its request, or gives the request up.
SampleStep(w) ==
  \E status \in {0, 200, 500, 503} :
    /\ worker[w] = "sending"
    /\ Sample(w, status)
    /\ UNCHANGED <<service, counter, current, toolVars>>
    /\ \/ /\ status = 0
          /\ lost' = lost \union {current[w]}
       \/ /\ reply[current[w]] # "none" /\ status = StatusOf(reply[current[w]])
          /\ lost' = lost

\* Reading an answer and giving a request up are the two ways to a sample.
LEMMA SampleSteps ==
  ASSUME LoadInv, NEW w \in Workers, ReadAnswer(w) \/ GiveUp(w)
  PROVE  SampleStep(w)
<1>1. CASE ReadAnswer(w)
  <2>1. reply[current[w]] \in Replies /\ reply[current[w]] # "none"
    BY <1>1 DEF ReadAnswer, LoadInv, IInv, TypeInv, LoadTypeInv
  <2>2. StatusOf(reply[current[w]]) \in {0, 200, 500, 503}
    BY <2>1, StatusOfReply
  <2> QED BY <1>1, <2>1, <2>2 DEF ReadAnswer, SampleStep
<1>2. CASE GiveUp(w)
  BY <1>2 DEF GiveUp, SampleStep
<1> QED BY <1>1, <1>2

\* What a sample step does to the samples.
LEMMA SampleStepAdds ==
  ASSUME LoadInv, NEW w \in Workers, SampleStep(w)
  PROVE  \E n \in Samples' :
           /\ n \notin Samples /\ Samples' = Samples \union {n}
           /\ Asked(n)' = current[w]
           /\ \/ StatusIn(n)' = 0 /\ current[w] \in lost'
              \/ /\ reply[current[w]] # "none"
                 /\ StatusIn(n)' = StatusOf(reply[current[w]])
           /\ lost \subseteq lost'
           /\ \A s \in Samples : Asked(s)' = Asked(s) /\ StatusIn(s)' = StatusIn(s)
           /\ worker' = [worker EXCEPT ![w] = "pulling"]
           /\ Len(out'[w]) = Len(out[w]) + 1
           /\ \A v \in Workers : v # w => out'[v] = out[v]
           /\ out' \in [Workers -> Seq(SampleSet)]
<1> PICK status \in {0, 200, 500, 503} :
      /\ worker[w] = "sending"
      /\ Sample(w, status)
      /\ \/ status = 0 /\ lost' = lost \union {current[w]}
         \/ /\ reply[current[w]] # "none" /\ status = StatusOf(reply[current[w]])
            /\ lost' = lost
  BY DEF SampleStep
<1>1. LoadTypeInv /\ SamplesFit
  BY DEF LoadInv
<1>2. lost \subseteq lost' /\ (status = 0 => current[w] \in lost' \/ reply[current[w]] # "none")
  OBVIOUS
<1>3. PICK n \in Samples' :
        /\ n \notin Samples
        /\ Samples' = Samples \union {n}
        /\ Asked(n)' = current[w] /\ StatusIn(n)' = status
        /\ \A s \in Samples : Asked(s)' = Asked(s) /\ StatusIn(s)' = StatusIn(s)
        /\ worker' = [worker EXCEPT ![w] = "pulling"]
        /\ Len(out'[w]) = Len(out[w]) + 1
        /\ \A v \in Workers : v # w => out'[v] = out[v]
        /\ out' \in [Workers -> Seq(SampleSet)]
  BY <1>1, SampleTaken
<1> QED BY <1>2, <1>3

\* Pulling a request leaves the samples alone.
LEMMA PullSteps ==
  ASSUME LoadInv, NEW w \in Workers, Pull(w)
  PROVE  /\ worker[w] = "pulling" /\ phase = "load"
         /\ counter' = counter + 1
         /\ UNCHANGED <<service, out, toolVars, lost>>
         /\ \/ /\ REQUESTS <= counter
               /\ worker' = [worker EXCEPT ![w] = "done"] /\ current' = current
            \/ /\ counter \in Load
               /\ worker' = [worker EXCEPT ![w] = "sending"]
               /\ current' = [current EXCEPT ![w] = counter]
BY LoadAssumption DEF Pull, Load, LoadInv, LoadTypeInv

\* Types and bounds are kept by every step.
LEMMA LoadTypeNext ==
  ASSUME LoadInv, [LoadNext]_loadVars
  PROVE  LoadTypeInv' /\ SamplesFit'
<1>1. CASE ServiceTurn
  <2> USE DEF LoadInv, LoadTypeInv
  <2>1. rejected' \in Nat /\ UNCHANGED <<workerVars, toolVars, lost>>
    BY <1>1 DEF ServiceTurn
  <2> QED BY <2>1 DEF workerVars, toolVars, SamplesFit
<1>2. CASE MainTurn
  <2> USE DEF LoadInv, LoadTypeInv
  <2>1. UNCHANGED workerVars /\ rejected' = rejected
    BY <1>2 DEF MainTurn, SelfCheckOk, SelfCheckFails, ScrapeBefore, Joined, Probe,
                ProbeJoined, ScrapeAfter, service
  <2>2. lost' \in SUBSET Requests
    BY <1>2, RequestsOfLoad
       DEF MainTurn, SelfCheckOk, SelfCheckFails, ScrapeBefore, Joined, Probe,
           ProbeJoined, ScrapeAfter
  <2>3. phase' \in Phases
    BY <1>2 DEF MainTurn, SelfCheckOk, SelfCheckFails, ScrapeBefore, Joined, Probe,
                ProbeJoined, ScrapeAfter, Phases
  <2>4. before' \in Scrapes /\ after' \in Scrapes
    <3>1. Snapshots \subseteq Scrapes
      BY DEF Snapshots, NoScrape, Unscraped, Scrapes, IInv, TypeInv
    <3> QED BY <1>2, <3>1
       DEF MainTurn, SelfCheckOk, SelfCheckFails, ScrapeBefore, Joined, Probe,
           ProbeJoined, ScrapeAfter
  <2> QED BY <2>1, <2>2, <2>3, <2>4 DEF workerVars, SamplesFit
<1>3. ASSUME NEW w \in Workers, Pull(w) PROVE LoadTypeInv' /\ SamplesFit'
  <2>1. /\ worker[w] = "pulling" /\ counter' = counter + 1
        /\ UNCHANGED <<phase, out, lost, rejected, before, after>>
        /\ \/ worker' = [worker EXCEPT ![w] = "done"] /\ current' = current
              /\ REQUESTS <= counter
           \/ /\ worker' = [worker EXCEPT ![w] = "sending"]
              /\ current' = [current EXCEPT ![w] = counter]
              /\ counter \in Requests /\ counter \in Load
    BY <1>3, PullSteps, RequestsOfLoad DEF service, toolVars
  <2>2. LoadTypeInv'
    <3>1. worker' \in [Workers -> {"pulling", "sending", "done"}]
      BY <2>1 DEF LoadInv, LoadTypeInv
    <3>2. current' \in [Workers -> Requests]
      BY <2>1 DEF LoadInv, LoadTypeInv
    <3> QED BY <2>1, <3>1, <3>2 DEF LoadInv, LoadTypeInv
  <2> USE DEF LoadInv, LoadTypeInv
  <2>3. SamplesFit'
    <3> SUFFICES ASSUME NEW v \in Workers
                 PROVE  /\ Len(out'[v]) <= REQUESTS
                        /\ Len(out'[v]) <= counter'
                        /\ worker'[v] = "sending" =>
                             /\ current'[v] \in Load
                             /\ Len(out'[v]) <= current'[v]
                             /\ current'[v] < counter'
      BY DEF SamplesFit
    <3>1. /\ Len(out[v]) \in Nat /\ Len(out'[v]) = Len(out[v])
          /\ Len(out[v]) <= REQUESTS /\ Len(out[v]) <= counter
      BY <2>1, LenProperties DEF SamplesFit
    <3>2. CASE v = w
      BY <2>1, <3>1, <3>2, LoadAssumption DEF Load
    <3>3. CASE v # w
      <4>1. worker'[v] = worker[v] /\ current'[v] = current[v]
        BY <2>1, <3>3
      <4> QED BY <2>1, <3>1, <4>1, LoadAssumption DEF SamplesFit, Load
    <3> QED BY <3>2, <3>3
  <2> QED BY <2>2, <2>3
<1>4. ASSUME NEW w \in Workers, SampleStep(w) PROVE LoadTypeInv' /\ SamplesFit'
  <2>1. worker[w] = "sending"
    BY <1>4 DEF SampleStep
  <2>2. /\ worker' = [worker EXCEPT ![w] = "pulling"]
        /\ Len(out'[w]) = Len(out[w]) + 1
        /\ \A v \in Workers : v # w => out'[v] = out[v]
        /\ out' \in [Workers -> Seq(SampleSet)]
    BY <1>4, SampleStepAdds
  <2> USE DEF LoadInv, LoadTypeInv
  <2>3. UNCHANGED <<service, counter, current, toolVars>>
    BY <1>4 DEF SampleStep
  <2>4. lost' \in SUBSET Requests
    BY <1>4 DEF SampleStep
  <2>5. LoadTypeInv'
    BY <2>2, <2>3, <2>4 DEF service, toolVars
  <2>6. Len(out[w]) \in Nat /\ Len(out[w]) <= current[w]
        /\ current[w] \in Load /\ current[w] < counter
    BY <2>1, LenProperties DEF SamplesFit
  <2>7. SamplesFit'
    BY <2>2, <2>3, <2>6, LoadAssumption DEF SamplesFit, Load
  <2> QED BY <2>5, <2>7
<1> QED BY <1>1, <1>2, <1>3, <1>4, Turns, SampleSteps DEF LoadInv

-----------------------------------------------------------------------------
(* Who owns a request, and what its sample says.                           *)

\* A step of the service or of the main task leaves the samples alone.
LEMMA SamplesStay ==
  ASSUME ServiceTurn \/ MainTurn
  PROVE  /\ UNCHANGED workerVars
         /\ Samples' = Samples
         /\ \A s \in Samples : Asked(s)' = Asked(s) /\ StatusIn(s)' = StatusIn(s)
         /\ lost \subseteq lost'
<1>1. UNCHANGED workerVars /\ lost \subseteq lost'
  BY DEF ServiceTurn, MainTurn, SelfCheckOk, SelfCheckFails, ScrapeBefore, Joined,
         Probe, ProbeJoined, ScrapeAfter
<1>2. out' = out
  BY <1>1 DEF workerVars
<1> QED BY <1>1, <1>2 DEF Samples, Asked, StatusIn

LEMMA MainTurnFrame ==
  MainTurn => UNCHANGED <<reply, pc, rejected, in_flight, admit_free>>
BY DEF MainTurn, SelfCheckOk, SelfCheckFails, ScrapeBefore, Joined, Probe,
       ProbeJoined, ScrapeAfter, service, vars

\* Every step leaves each pulled request with one owner: a pull makes its worker
\* the owner, a sample takes the request over from the worker.
LEMMA OwnedNext ==
  ASSUME LoadInv, [LoadNext]_loadVars
  PROVE  Owned'
<1>1. CASE ServiceTurn \/ MainTurn
  BY <1>1, SamplesStay DEF LoadInv, Owned, workerVars
<1>2. ASSUME NEW w \in Workers, Pull(w) PROVE Owned'
  <2>1. /\ Samples' = Samples
        /\ \A s \in Samples : Asked(s)' = Asked(s)
        /\ counter' = counter + 1 /\ worker[w] = "pulling"
    BY <1>2, PullSteps DEF Samples, Asked
  <2>2. /\ worker \in [Workers -> {"pulling", "sending", "done"}]
        /\ current \in [Workers -> Requests] /\ counter \in Nat
    BY DEF LoadInv, LoadTypeInv
  <2>3. \A v \in Workers : worker[v] = "sending" => current[v] < counter
    BY DEF LoadInv, SamplesFit
  <2>4. /\ \A s, t \in Samples : Asked(s) = Asked(t) => s = t
        /\ \A s \in Samples : Asked(s) \in Load /\ Asked(s) < counter
    BY DEF LoadInv, Owned
  <2>5. CASE /\ REQUESTS <= counter
             /\ worker' = [worker EXCEPT ![w] = "done"] /\ current' = current
    <3>1. \A v \in Workers : worker'[v] = "sending" <=> worker[v] = "sending"
      BY <2>1, <2>2, <2>5
    <3>2. \A i \in Load : i < counter
      BY <2>2, <2>5, LoadAssumption DEF Load
    <3>3. \A i \in Load :
            \/ \E v \in Workers : worker'[v] = "sending" /\ current'[v] = i
            \/ \E s \in Samples : Asked(s) = i
      BY <2>5, <3>1, <3>2 DEF LoadInv, Owned
    <3>4. \A i \in Load : i < counter'
      BY <2>1, <2>2, <3>2 DEF Load
    <3> QED BY <2>1, <2>4, <2>5, <3>1, <3>3, <3>4 DEF LoadInv, Owned
  <2>6. CASE /\ counter \in Load
             /\ worker' = [worker EXCEPT ![w] = "sending"]
             /\ current' = [current EXCEPT ![w] = counter]
    <3>1. /\ worker'[w] = "sending" /\ current'[w] = counter
          /\ \A v \in Workers : v # w =>
               worker'[v] = worker[v] /\ current'[v] = current[v]
      BY <2>2, <2>6
    <3>2. \A v \in Workers : worker[v] = "sending" => v # w /\ current[v] # counter
      BY <2>1, <2>2, <2>3, RequestsOfLoad
    <3>3. \A u, v \in Workers :
            worker'[u] = "sending" /\ worker'[v] = "sending" /\ current'[u] = current'[v]
              => u = v
      BY <3>1, <3>2 DEF LoadInv, Owned
    <3>4. \A s \in Samples, v \in Workers :
            worker'[v] = "sending" => Asked(s) # current'[v]
      BY <2>2, <2>4, <3>1, RequestsOfLoad DEF LoadInv, Owned
    <3>5. ASSUME NEW s \in Samples PROVE Asked(s) < counter'
      <4>1. Asked(s) \in Nat /\ Asked(s) < counter
        BY <2>4, RequestsOfLoad
      <4> QED BY <2>1, <2>2, <4>1
    <3>6. ASSUME NEW i \in Load, i < counter'
          PROVE  \/ \E v \in Workers : worker'[v] = "sending" /\ current'[v] = i
                 \/ \E s \in Samples : Asked(s) = i
      <4>1. CASE i = counter
        BY <3>1, <4>1
      <4>2. CASE i # counter
        <5>1. i < counter
          BY <2>1, <2>2, <3>6, <4>2, RequestsOfLoad
        <5> QED BY <3>1, <3>2, <5>1 DEF LoadInv, Owned
      <4> QED BY <4>1, <4>2
    <3> QED BY <2>1, <2>4, <3>3, <3>4, <3>5, <3>6 DEF Owned
  <2> QED BY <1>2, <2>5, <2>6, PullSteps
<1>3. ASSUME NEW w \in Workers, SampleStep(w) PROVE Owned'
  <2>1. worker[w] = "sending" /\ current' = current /\ counter' = counter
    BY <1>3 DEF SampleStep
  <2>2. PICK n \in Samples' :
          /\ n \notin Samples /\ Samples' = Samples \union {n}
          /\ Asked(n)' = current[w]
          /\ \A s \in Samples : Asked(s)' = Asked(s)
          /\ worker' = [worker EXCEPT ![w] = "pulling"]
    BY <1>3, SampleStepAdds
  <2>3. \A v \in Workers :
          worker'[v] = "sending" <=> worker[v] = "sending" /\ v # w
    BY <2>2 DEF LoadInv, LoadTypeInv
  <2>4. current[w] \in Load /\ current[w] < counter
    BY <2>1 DEF LoadInv, SamplesFit
  <2>5. \A u, v \in Workers :
          worker'[u] = "sending" /\ worker'[v] = "sending" /\ current'[u] = current'[v]
            => u = v
    BY <2>1, <2>3 DEF LoadInv, Owned
  <2>6. \A s, t \in Samples' : Asked(s)' = Asked(t)' => s = t
    BY <2>1, <2>2 DEF LoadInv, Owned
  <2>7. \A s \in Samples', v \in Workers :
          worker'[v] = "sending" => Asked(s)' # current'[v]
    BY <2>1, <2>2, <2>3 DEF LoadInv, Owned
  <2>8. \A s \in Samples' : Asked(s)' \in Load /\ Asked(s)' < counter'
    BY <2>1, <2>2, <2>4 DEF LoadInv, Owned
  <2>9. ASSUME NEW i \in Load, i < counter'
        PROVE  \/ \E v \in Workers : worker'[v] = "sending" /\ current'[v] = i
               \/ \E s \in Samples' : Asked(s)' = i
    <3>1. \/ \E v \in Workers : worker[v] = "sending" /\ current[v] = i
          \/ \E s \in Samples : Asked(s) = i
      BY <2>1, <2>9 DEF LoadInv, Owned
    <3>2. ASSUME NEW v \in Workers, worker[v] = "sending", current[v] = i
          PROVE  \/ \E u \in Workers : worker'[u] = "sending" /\ current'[u] = i
                 \/ \E s \in Samples' : Asked(s)' = i
      BY <2>1, <2>2, <2>3, <3>2
    <3>3. ASSUME NEW s \in Samples, Asked(s) = i
          PROVE  \E t \in Samples' : Asked(t)' = i
      BY <2>2, <3>3
    <3> QED BY <3>1, <3>2, <3>3
  <2> QED BY <2>5, <2>6, <2>7, <2>8, <2>9 DEF Owned
<1> QED BY <1>1, <1>2, <1>3, Turns, SampleSteps DEF LoadInv

\* A sample stays true: its answer is final, and what is lost stays lost.
LEMMA SamplesTrueNext ==
  ASSUME LoadInv, [LoadNext]_loadVars
  PROVE  SamplesTrue'
<1>1. \A s \in Samples : Asked(s) \in Requests
  BY RequestsOfLoad DEF LoadInv, Owned
<1>2. CASE ServiceTurn \/ MainTurn
  <2>1. \A q \in Requests : reply[q] # "none" => reply'[q] = reply[q]
    BY <1>2, MainTurnFrame DEF ServiceTurn
  <2>2. /\ Samples' = Samples /\ lost \subseteq lost'
        /\ \A s \in Samples : Asked(s)' = Asked(s) /\ StatusIn(s)' = StatusIn(s)
    BY <1>2, SamplesStay
  <2> QED BY <1>1, <2>1, <2>2 DEF LoadInv, SamplesTrue
<1>3. ASSUME NEW w \in Workers, Pull(w) PROVE SamplesTrue'
  BY <1>3, PullSteps
     DEF service, vars, Samples, Asked, StatusIn, LoadInv, SamplesTrue
<1>4. ASSUME NEW w \in Workers, SampleStep(w) PROVE SamplesTrue'
  <2>1. reply' = reply
    BY <1>4 DEF SampleStep, service, vars
  <2>2. PICK n \in Samples' :
          /\ n \notin Samples /\ Samples' = Samples \union {n}
          /\ Asked(n)' = current[w]
          /\ \/ StatusIn(n)' = 0 /\ current[w] \in lost'
             \/ /\ reply[current[w]] # "none"
                /\ StatusIn(n)' = StatusOf(reply[current[w]])
          /\ lost \subseteq lost'
          /\ \A s \in Samples : Asked(s)' = Asked(s) /\ StatusIn(s)' = StatusIn(s)
    BY <1>4, SampleStepAdds
  <2>3. ASSUME NEW s \in Samples'
        PROVE  \/ StatusIn(s)' = 0 /\ Asked(s)' \in lost'
               \/ reply'[Asked(s)'] # "none" /\ StatusIn(s)' = StatusOf(reply'[Asked(s)'])
    <3>1. CASE s = n
      BY <2>1, <2>2, <3>1
    <3>2. CASE s \in Samples
      BY <2>1, <2>2, <3>2 DEF LoadInv, SamplesTrue
    <3> QED BY <2>2, <3>1, <3>2
  <2> QED BY <2>3 DEF SamplesTrue
<1> QED BY <1>2, <1>3, <1>4, Turns, SampleSteps DEF LoadInv

-----------------------------------------------------------------------------
(* What the phases rely on, and what was shed.                             *)

\* A request the counter has not reached stays out of the service.
LEMMA UnsentNext ==
  ASSUME LoadInv, [LoadNext]_loadVars
  PROVE  Unsent'
<1>1. counter \in Nat /\ \A i \in Load : i \in Nat /\ i \in Requests /\ i # SELF_CHECK
  BY RequestsOfLoad DEF LoadInv, LoadTypeInv
<1>2. counter' \in Nat /\ counter <= counter'
  <2>1. CASE ServiceTurn \/ MainTurn
    BY <1>1, <2>1, SamplesStay DEF workerVars
  <2>2. ASSUME NEW w \in Workers, Pull(w) \/ SampleStep(w)
        PROVE  counter' \in Nat /\ counter <= counter'
    BY <1>1, <2>2, PullSteps DEF SampleStep
  <2> QED BY <2>1, <2>2, Turns, SampleSteps DEF LoadInv
<1>3. ASSUME NEW i \in Load, counter <= i PROVE pc'[i] = "new"
  <2>1. pc[i] = "new" /\ i \notin Sent
    BY <1>1, <1>3 DEF LoadInv, Unsent, Sent
  <2>2. CASE ServiceTurn
    BY <1>1, <2>1, <2>2 DEF ServiceTurn
  <2>3. CASE MainTurn
    BY <2>1, <2>3, MainTurnFrame
  <2>4. ASSUME NEW w \in Workers, Pull(w) \/ SampleStep(w) PROVE pc'[i] = "new"
    BY <2>1, <2>4, PullSteps DEF SampleStep, service, vars
  <2> QED BY <2>2, <2>3, <2>4, Turns, SampleSteps DEF LoadInv
<1>4. \A i \in Load : counter' <= i => counter <= i
  BY <1>1, <1>2
<1> QED BY <1>3, <1>4 DEF Unsent

\* Until the load starts, the self-check is all the service has seen.
LEMMA OnlySelfCheck ==
  ASSUME LoadInv, counter = 0, NEW q \in Requests, q # SELF_CHECK
  PROVE  pc[q] = "new" /\ reply[q] = "none"
<1>1. q \in Load /\ counter <= q
  BY RequestsOfLoad
<1>2. pc[q] = "new"
  BY <1>1 DEF LoadInv, Unsent
<1> QED BY <1>2 DEF LoadInv, IInv, Stages

\* The first scrape finds a service that has shed nothing of this run.
LEMMA PhaseNext ==
  ASSUME LoadInv, [LoadNext]_loadVars
  PROVE  PhaseInv'
<1>1. CASE ServiceTurn
  <2>1. UNCHANGED <<phase, counter, worker, before, lost>>
    BY <1>1 DEF ServiceTurn, workerVars, toolVars
  <2>2. reply[SELF_CHECK] = "Success" => reply'[SELF_CHECK] = "Success"
    BY <1>1, RequestsOfLoad DEF ServiceTurn
  <2> QED BY <2>1, <2>2 DEF LoadInv, PhaseInv
<1>2. CASE MainTurn
  <2>1. UNCHANGED <<reply, counter, worker>>
    BY <1>2, MainTurnFrame, SamplesStay DEF workerVars
  <2>2. CASE ScrapeBefore
    <3>1. counter = 0 /\ reply[SELF_CHECK] = "Success"
      BY <2>2 DEF ScrapeBefore, LoadInv, PhaseInv
    <3>2. Busy = {}
      BY <3>1, OnlySelfCheck DEF Busy
    <3>3. rejected = EARLIER
      BY <3>2, FS_EmptySet, LoadAssumption DEF LoadInv
    <3>4. before'.rejected = IF before'.read = "metrics" THEN EARLIER ELSE 0
      BY <2>2, <3>3 DEF ScrapeBefore, Snapshots, NoScrape, Unscraped
    <3> QED BY <2>1, <2>2, <3>1, <3>4 DEF ScrapeBefore, PhaseInv
  <2>3. CASE ~ScrapeBefore
    <3>1. before' = before
      BY <1>2, <2>3 DEF MainTurn, SelfCheckOk, SelfCheckFails, Joined, Probe,
                        ProbeJoined, ScrapeAfter
    <3>2. lost \subseteq lost' /\ (SelfCheckFails => SELF_CHECK \in lost')
      BY <1>2, SamplesStay DEF SelfCheckFails
    <3> QED BY <1>2, <2>1, <2>3, <3>1, <3>2
         DEF MainTurn, SelfCheckOk, SelfCheckFails, Joined, Probe, ProbeJoined,
             ScrapeAfter, LoadInv, PhaseInv
  <2> QED BY <2>2, <2>3
<1>3. ASSUME NEW w \in Workers, Pull(w) PROVE PhaseInv'
  <2>1. /\ phase = "load"
        /\ UNCHANGED <<phase, reply, before, lost>>
    BY <1>3, PullSteps DEF service, vars, toolVars
  <2> QED BY <2>1 DEF LoadInv, PhaseInv
<1>4. ASSUME NEW w \in Workers, SampleStep(w) PROVE PhaseInv'
  <2>1. /\ worker[w] = "sending" /\ lost \subseteq lost'
        /\ UNCHANGED <<counter, phase, reply, before>>
    BY <1>4 DEF SampleStep, service, vars, toolVars
  <2>2. phase \notin {"probe", "after", "reported"}
    BY <2>1 DEF LoadInv, PhaseInv
  <2> QED BY <2>1, <2>2 DEF LoadInv, PhaseInv
<1> QED BY <1>1, <1>2, <1>3, <1>4, Turns, SampleSteps DEF LoadInv

LEMMA BusyFinite ==
  Busy \subseteq Requests /\ IsFiniteSet(Busy) /\ Cardinality(Busy) \in Nat
<1>1. Busy \subseteq Requests
  BY DEF Busy
<1> QED BY <1>1, RequestsAssumption, FS_Subset, FS_CardinalityType

\* The metric counts the requests that were shed.
LEMMA BusyNext ==
  ASSUME LoadInv, [LoadNext]_loadVars
  PROVE  (rejected = EARLIER + Cardinality(Busy))'
<1>1. ASSUME rejected' = rejected, Busy' = Busy
      PROVE  (rejected = EARLIER + Cardinality(Busy))'
  BY <1>1 DEF LoadInv
<1>2. CASE ServiceTurn
  <2>1. ASSUME NEW r \in Requests, r \notin Busy, Busy' = Busy \union {r},
               rejected' = rejected + 1
        PROVE  (rejected = EARLIER + Cardinality(Busy))'
    <3>1. Cardinality(Busy \union {r}) = Cardinality(Busy) + 1
      BY <2>1, BusyFinite, FS_AddElement
    <3> QED BY <2>1, <3>1, BusyFinite, LoadAssumption DEF LoadInv
  <2> QED BY <1>1, <1>2, <2>1 DEF ServiceTurn
<1>3. CASE MainTurn
  BY <1>1, <1>3, MainTurnFrame DEF Busy
<1>4. ASSUME NEW w \in Workers, Pull(w) \/ SampleStep(w)
      PROVE  (rejected = EARLIER + Cardinality(Busy))'
  <2>1. UNCHANGED <<rejected, reply>>
    BY <1>4, PullSteps DEF SampleStep, service, vars
  <2> QED BY <1>1, <2>1 DEF Busy
<1> QED BY <1>2, <1>3, <1>4, Turns, SampleSteps DEF LoadInv

-----------------------------------------------------------------------------
(* A request is shed only when the cap is full of others.                  *)

\* While the load runs, a request the service holds is one that a worker waits
\* for or one that was given up: the others have their answers.
LEMMA HeldAreAwaitedOrLost ==
  ASSUME LoadInv, counter # 0, NEW q \in Admitted
  PROVE  q \in lost \union Awaited
<1>1. q \in Requests /\ pc[q] # "new" /\ reply[q] = "none"
  BY DEF Admitted, Holding, Awaiting, LoadInv, IInv, Stages
<1>2. CASE q = SELF_CHECK
  <2>1. phase = "panicked"
    BY <1>1, <1>2 DEF LoadInv, PhaseInv
  <2> QED BY <1>2, <2>1 DEF LoadInv, PhaseInv
<1>3. CASE q # SELF_CHECK
  <2>1. q \in Load /\ q < counter
    BY <1>1, <1>3, RequestsOfLoad DEF LoadInv, LoadTypeInv, Unsent
  <2>2. CASE \E w \in Workers : worker[w] = "sending" /\ current[w] = q
    BY <2>2 DEF Awaited
  <2>3. CASE \E s \in Samples : Asked(s) = q
    BY <1>1, <2>3 DEF LoadInv, SamplesTrue
  <2> QED BY <2>1, <2>2, <2>3 DEF LoadInv, Owned
<1> QED BY <1>2, <1>3

\* A request that is shed finds the cap full of such requests.
LEMMA ShedFindsCapFull ==
  ASSUME LoadInv, NEW r \in Sent \intersect Requests, Shed(r)
  PROVE  MAX_INFLIGHT <= Cardinality(Admitted \intersect (lost \union Awaited))
<1>1. pc[r] = "new" /\ admit_free = 0 /\ AdmissionConserved
  BY DEF Shed, LoadInv, IInv
<1>2. Cardinality(Admitted) = MAX_INFLIGHT
  <2>1. Admitted \in SUBSET Requests
    BY DEF Admitted
  <2>2. Cardinality(Admitted) \in Nat
    BY <2>1, RequestsAssumption, FS_Subset, FS_CardinalityType
  <2> QED BY <1>1, <2>2, LimitsAssumption DEF AdmissionConserved
<1>3. counter # 0
  <2> SUFFICES ASSUME counter = 0 PROVE FALSE
    OBVIOUS
  <2>1. r = SELF_CHECK
    BY DEF Sent, Load
  <2>2. Admitted = {}
    BY <1>1, <2>1, OnlySelfCheck DEF Admitted, Holding, Awaiting
  <2> QED BY <1>2, <2>2, FS_EmptySet, LimitsAssumption
<1>4. Admitted \intersect (lost \union Awaited) = Admitted
  BY <1>3, HeldAreAwaitedOrLost
<1> QED BY <1>2, <1>4, LimitsAssumption

\* Only a shed request moves the metric.
LEMMA ShedsNext ==
  ASSUME LoadInv, [LoadNext]_loadVars, rejected' > rejected
  PROVE  MAX_INFLIGHT <= Cardinality(Admitted \intersect (lost \union Awaited))
<1>1. rejected' # rejected
  BY DEF LoadInv, LoadTypeInv
<1>2. CASE ServiceTurn
  BY <1>1, <1>2, ShedFindsCapFull DEF ServiceTurn
<1>3. ~MainTurn
  BY <1>1, MainTurnFrame
<1>4. ASSUME NEW w \in Workers, Pull(w) \/ SampleStep(w) PROVE FALSE
  BY <1>1, <1>4, PullSteps DEF SampleStep, service
<1> QED BY <1>2, <1>3, <1>4, Turns, SampleSteps DEF LoadInv

-----------------------------------------------------------------------------
(* The report.                                                             *)

\* The samples of one status.
Having(status) == {s \in Samples : StatusIn(s) = status}

\* The histogram of the report counts the samples of a status.
LEMMA SamplesFinite ==
  /\ IsFiniteSet(Samples)
  /\ \A status : /\ IsFiniteSet(Having(status))
                 /\ Cardinality(Having(status)) \in Nat
                 /\ Histogram(status) = Cardinality(Having(status))
<1>1. IsFiniteSet(1..REQUESTS)
  BY LoadAssumption, FS_Interval
<1>2. IsFiniteSet(Workers \X (1..REQUESTS))
  BY <1>1, LoadAssumption, FS_Product
<1>3. IsFiniteSet(Samples)
  BY <1>2, FS_Subset DEF Samples
<1>4. ASSUME NEW status
      PROVE  /\ IsFiniteSet(Having(status))
             /\ Cardinality(Having(status)) \in Nat
             /\ Histogram(status) = Cardinality(Having(status))
  <2>1. Having(status) \in SUBSET Samples
    BY DEF Having
  <2>2. {s \in Samples : out[s[1]][s[2]].status = status} = Having(status)
    BY DEF Having, StatusIn
  <2> QED BY <1>3, <2>1, <2>2, FS_Subset, FS_CardinalityType DEF Histogram
<1> QED BY <1>3, <1>4

\* Requests that were each sampled with some status are no more than the
\* samples of it: a sample names one request.
LEMMA SampledRequests ==
  ASSUME LoadInv, NEW Q \in SUBSET Requests, NEW T \in SUBSET Samples,
         \A q \in Q : \E s \in T : Asked(s) = q
  PROVE  Cardinality(Q) <= Cardinality(T)
<1> DEFINE f == [q \in Q |-> CHOOSE s \in T : Asked(s) = q]
<1>1. \A q \in Q : f[q] \in T /\ Asked(f[q]) = q
  OBVIOUS
<1>2. f \in [Q -> T]
  BY <1>1
<1> HIDE DEF f
<1>3. f \in Injection(Q, T)
  BY <1>1, <1>2 DEF Injection, IsInjective
<1>4. IsFiniteSet(T)
  BY SamplesFinite, FS_Subset
<1> QED BY <1>3, <1>4, FS_Injection

\* Samples of requests in a set are no more than the set: no request is
\* sampled twice.
LEMMA RequestsSampled ==
  ASSUME LoadInv, NEW Q \in SUBSET Requests, NEW T \in SUBSET Samples,
         \A s \in T : Asked(s) \in Q
  PROVE  Cardinality(T) <= Cardinality(Q)
<1> DEFINE f == [s \in T |-> Asked(s)]
<1>1. f \in [T -> Q]
  OBVIOUS
<1>2. \A s, t \in T : f[s] = f[t] => s = t
  BY DEF LoadInv, Owned
<1> HIDE DEF f
<1>3. f \in Injection(T, Q)
  BY <1>1, <1>2 DEF Injection, IsInjective
<1>4. IsFiniteSet(Q)
  BY RequestsAssumption, FS_Subset
<1> QED BY <1>3, <1>4, FS_Injection

\* Once every worker is joined, a request the service knows of is in a sample.
LEMMA AllSampled ==
  ASSUME LoadInv, \A w \in Workers : worker[w] = "done",
         NEW q \in Load, pc[q] # "new"
  PROVE  \E s \in Samples : Asked(s) = q
<1>1. q < counter
  BY RequestsOfLoad DEF LoadInv, LoadTypeInv, Unsent
<1> QED BY <1>1 DEF LoadInv, Owned

\* The metrics of the service and the answers agree once the workers are
\* joined, up to the requests that were given up.
LEMMA CountsAgree ==
  ASSUME LoadInv, phase = "after"
  PROVE  /\ Histogram(503) <= Cardinality(Busy)
         /\ Cardinality(Busy) <= Histogram(503) + Histogram(0)
         /\ in_flight <= Histogram(0)
<1>1. /\ reply[SELF_CHECK] = "Success"
      /\ \A w \in Workers : worker[w] = "done"
  BY DEF LoadInv, PhaseInv
<1>2. /\ Stages /\ TypeInv /\ SamplesTrue
      /\ \A s \in Samples : Asked(s) \in Requests
  BY RequestsOfLoad DEF LoadInv, IInv, Owned
<1>3. ASSUME NEW s \in Samples
      PROVE  \/ StatusIn(s) = 0
             \/ /\ reply[Asked(s)] # "none"
                /\ StatusIn(s) # 0
                /\ StatusIn(s) = 503 <=> reply[Asked(s)] = "ServerBusy"
  <2>1. reply[Asked(s)] \in Replies
    BY <1>2 DEF TypeInv
  <2> QED BY <1>2, <2>1, StatusOfReply DEF SamplesTrue
<1>4. /\ Having(503) \in SUBSET Samples /\ Having(0) \in SUBSET Samples
      /\ Having(503) \union Having(0) \in SUBSET Samples
  BY DEF Having
<1>5. Cardinality(Having(503)) <= Cardinality(Busy)
  <2>1. \A s \in Having(503) : Asked(s) \in Busy
    BY <1>2, <1>3 DEF Having, Busy
  <2> QED BY <1>4, <2>1, BusyFinite, RequestsSampled
<1>6. Cardinality(Busy) <= Cardinality(Having(503) \union Having(0))
  <2>1. ASSUME NEW q \in Busy
        PROVE  \E s \in Having(503) \union Having(0) : Asked(s) = q
    <3>1. q \in Load /\ pc[q] # "new"
      BY <1>1, <1>2, RequestsOfLoad DEF Busy, Stages
    <3>2. PICK s \in Samples : Asked(s) = q
      BY <1>1, <3>1, AllSampled
    <3>3. StatusIn(s) = 0 \/ StatusIn(s) = 503
      BY <1>3, <3>2 DEF Busy
    <3> QED BY <3>2, <3>3 DEF Having
  <2> QED BY <1>4, <2>1, BusyFinite, SampledRequests
<1>7. Cardinality(Having(503) \union Having(0))
        <= Cardinality(Having(503)) + Cardinality(Having(0))
  <2>1. /\ Cardinality(Having(503) \union Having(0)) =
             Cardinality(Having(503)) + Cardinality(Having(0))
               - Cardinality(Having(503) \intersect Having(0))
        /\ Cardinality(Having(503) \intersect Having(0)) \in Nat
    BY SamplesFinite, FS_Union, FS_Intersection, FS_CardinalityType
  <2> QED BY <2>1, SamplesFinite
<1>8. Cardinality(Running) <= Cardinality(Having(0))
  <2>1. ASSUME NEW q \in Running
        PROVE  \E s \in Having(0) : Asked(s) = q
    <3>1. q \in Requests /\ task[q] = "running" /\ pc[q] \notin {"new", "answered"}
      BY <1>2 DEF Running, Stages
    <3>2. reply[q] = "none" /\ q \in Load
      BY <1>1, <1>2, <3>1, RequestsOfLoad DEF Stages
    <3>3. PICK s \in Samples : Asked(s) = q
      BY <1>1, <3>1, <3>2, AllSampled
    <3> QED BY <1>3, <3>2, <3>3 DEF Having
  <2>2. Running \in SUBSET Requests
    BY DEF Running
  <2> QED BY <1>4, <2>1, <2>2, SampledRequests
<1>9. in_flight = Cardinality(Running)
  BY DEF LoadInv, IInv, GaugeBalanced, Running
<1>10. /\ Cardinality(Having(503) \union Having(0)) \in Nat
       /\ Cardinality(Having(503)) \in Nat /\ Cardinality(Having(0)) \in Nat
       /\ Histogram(503) = Cardinality(Having(503))
       /\ Histogram(0) = Cardinality(Having(0))
  BY <1>4, SamplesFinite, FS_Subset, FS_CardinalityType
<1> QED BY <1>2, <1>5, <1>6, <1>7, <1>8, <1>9, <1>10, BusyFinite

\* The report is made from one state, and what it is made from is fixed then.
LEMMA ReportNext ==
  ASSUME LoadInv, [LoadNext]_loadVars
  PROVE  ReportAgrees'
<1>1. ASSUME out' = out PROVE \A status : Histogram(status)' = Histogram(status)
  BY <1>1 DEF Histogram, Samples
<1>2. ASSUME UNCHANGED <<out, phase, before, after>> PROVE ReportAgrees'
  BY <1>1, <1>2 DEF LoadInv, ReportAgrees, Diffed, Difference
<1>3. ASSUME phase' # "reported" PROVE ReportAgrees'
  BY <1>3 DEF ReportAgrees, Diffed
<1>4. CASE ServiceTurn
  BY <1>2, <1>4 DEF ServiceTurn, workerVars, toolVars
<1>5. CASE ScrapeAfter
  <2>1. /\ phase = "after" /\ out' = out /\ before' = before
        /\ after' \in Snapshots
    BY <1>5 DEF ScrapeAfter, workerVars
  <2>2. /\ before.rejected = IF before.read = "metrics" THEN EARLIER ELSE 0
        /\ rejected = EARLIER + Cardinality(Busy)
        /\ Cardinality(Busy) \in Nat /\ EARLIER \in Nat
    BY BusyFinite, LoadAssumption DEF LoadInv, PhaseInv
  <2>3. \A status : Histogram(status) \in Nat
    BY SamplesFinite, FS_CardinalityType DEF Histogram, Having, StatusIn
  <2>4. CASE after'.read = "metrics"
    <3>1. after'.rejected = rejected /\ after'.in_flight = in_flight
      BY <2>1, <2>4 DEF Snapshots, NoScrape, Unscraped
    <3>2. Histogram(503) <= after'.rejected - before.rejected
      BY <2>2, <2>3, <3>1, CountsAgree, <2>1
    <3>3. before.read = "metrics" =>
            after'.rejected - before.rejected <= Histogram(503) + Histogram(0)
      BY <2>2, <2>3, <3>1, CountsAgree, <2>1
    <3>4. after'.in_flight <= Histogram(0)
      BY <2>1, <3>1, CountsAgree
    <3> QED BY <1>1, <2>1, <3>2, <3>3, <3>4 DEF ReportAgrees, Difference
  <2>5. CASE after'.read # "metrics"
    <3>1. after'.rejected = 0 /\ after'.in_flight = 0
      BY <2>1, <2>5 DEF Snapshots, NoScrape, Unscraped
    <3>2. before.read = "metrics" =>
            after'.rejected - before.rejected <= Histogram(503) + Histogram(0)
      BY <2>2, <2>3, <3>1
    <3>3. after'.in_flight <= Histogram(0)
      BY <2>3, <3>1
    <3> QED BY <1>1, <2>1, <2>5, <3>2, <3>3 DEF ReportAgrees, Difference
  <2> QED BY <2>4, <2>5
<1>6. CASE MainTurn /\ ~ScrapeAfter
  <2>1. CASE Probe
    BY <1>2, <2>1 DEF Probe, workerVars
  <2>2. CASE ~Probe
    BY <1>3, <1>6, <2>2
       DEF MainTurn, SelfCheckOk, SelfCheckFails, ScrapeBefore, Joined, ProbeJoined
  <2> QED BY <2>1, <2>2
<1>7. ASSUME NEW w \in Workers, Pull(w) PROVE ReportAgrees'
  BY <1>2, <1>7, PullSteps DEF toolVars
<1>8. ASSUME NEW w \in Workers, SampleStep(w) PROVE ReportAgrees'
  <2>1. worker[w] = "sending" /\ phase' = phase
    BY <1>8 DEF SampleStep, toolVars
  <2> QED BY <1>3, <2>1 DEF LoadInv, PhaseInv
<1> QED BY <1>4, <1>5, <1>6, <1>7, <1>8, Turns, SampleSteps DEF LoadInv

-----------------------------------------------------------------------------
(* The theorems.                                                           *)

LEMMA LoadInvariant == LoadSpec => []LoadInv
<1>1. LoadInv /\ [LoadNext]_loadVars => LoadInv'
  <2> SUFFICES ASSUME LoadInv, [LoadNext]_loadVars PROVE LoadInv'
    OBVIOUS
  <2>1. IInv'
    BY ServiceStep, IInvNext DEF LoadInv
  <2> QED
    BY <2>1, LoadTypeNext, OwnedNext, SamplesTrueNext, UnsentNext, PhaseNext,
       BusyNext, ReportNext
       DEF LoadInv
<1> QED BY <1>1, LoadInvInit, PTL DEF LoadSpec

\* For any number of workers and of requests, however the workers interleave
\* and whatever is lost, every request of the load is sampled once and by one
\* worker (fetch_add and the per-worker vectors of cmd_run).
THEOREM NoRequestSkippedOrDoubled == LoadSpec => []EveryRequestSampledOnce
<1>1. ASSUME LoadInv PROVE EveryRequestSampledOnce
  <2> SUFFICES
        ASSUME NEW i \in Load
        PROVE  Cardinality({s \in Samples : Asked(s) = i}) =
                 IF /\ i < counter
                    /\ \A w \in Workers : ~(worker[w] = "sending" /\ current[w] = i)
                   THEN 1 ELSE 0
    BY DEF EveryRequestSampledOnce, Asked
  <2>1. CASE /\ i < counter
             /\ \A w \in Workers : ~(worker[w] = "sending" /\ current[w] = i)
    <3>1. PICK s \in Samples : Asked(s) = i
      BY <1>1, <2>1 DEF LoadInv, Owned
    <3>2. {t \in Samples : Asked(t) = i} = {s}
      BY <1>1, <3>1 DEF LoadInv, Owned
    <3> QED BY <2>1, <3>2, FS_Singleton
  <2>2. CASE ~(/\ i < counter
               /\ \A w \in Workers : ~(worker[w] = "sending" /\ current[w] = i))
    <3>1. {s \in Samples : Asked(s) = i} = {}
      BY <1>1, <2>2 DEF LoadInv, Owned
    <3> QED BY <2>2, <3>1, FS_EmptySet
  <2> QED BY <2>1, <2>2
<1> QED BY <1>1, LoadInvariant, PTL

\* For any number of workers and of requests, any limits of the service and
\* whatever bodies the scrapes are answered with, the printed diff agrees with
\* the answers up to the requests that were lost, each bound as far as its
\* scrape was of the metrics (the report of cmd_run).
THEOREM MetricsMatchAnswers == LoadSpec => []ReportAgrees
BY LoadInvariant, PTL DEF LoadInv

\* For any cap and any number of workers, a request is shed only when the cap
\* is full of others, each awaited by a worker or given up and still held: a
\* permit is back before its answer is out (_admit).
THEOREM CapIsReachedBeforeShedding == LoadSpec => ShedsOnlyOverCap
<1>1. ASSUME LoadInv, [LoadNext]_loadVars
      PROVE  [rejected' > rejected =>
                MAX_INFLIGHT <= Cardinality(Admitted \intersect (lost \union Awaited))]_loadVars
  BY <1>1, ShedsNext
<1> QED BY <1>1, LoadInvariant, PTL DEF LoadSpec, ShedsOnlyOverCap
=============================================================================
