---------------------------- MODULE VerifyBatch -----------------------------
(***************************************************************************)
(* The POST /verifyBatch handler of zk-verifier (src/api/mod.rs): the      *)
(* admission semaphore, the FIFO CPU semaphore, the verification on the    *)
(* blocking pool, the two-sided persist step and the answer.               *)
(*                                                                         *)
(* A request is two actors.  Its handler is an async future that can be    *)
(* dropped at an await when the client disconnects.  Its verification is a *)
(* blocking task that always runs to its end, whatever became of the       *)
(* handler.  The admission permit lives in the first, the CPU permit in    *)
(* the second, and the hand-over between them is what this module is       *)
(* about.  What a store does inside persist_cts is module Persist.         *)
(***************************************************************************)
EXTENDS Integers, Sequences, SequencesExt, FiniteSets

CONSTANTS
  Requests,             \* the requests that may ever arrive, each at most once
  MAX_INFLIGHT,         \* permits of admit_sem
  VERIFY_CONCURRENCY    \* permits of verify_sem

\* Both limits are clamped to at least 1 when the state is built.
ASSUME LimitsAssumption ==
  /\ MAX_INFLIGHT \in Nat \ {0}
  /\ VERIFY_CONCURRENCY \in Nat \ {0}

ASSUME RequestsAssumption == IsFiniteSet(Requests)

VARIABLES
  admit_free,   \* permits left in admit_sem
  verify_free,  \* permits left in verify_sem
  waiters,      \* handlers queued on verify_sem, first come first
  pc,           \* where each handler is
  task,         \* where each blocking verification is
  result,       \* what the blocking closure returned
  in_flight,    \* the zk_verify_in_flight gauge
  external,     \* the external-storage branch of persist_cts
  store_cts,    \* the StoreCts branch of persist_cts
  reply         \* the answer the client was sent

vars == <<admit_free, verify_free, waiters, pc, task, result, in_flight,
          external, store_cts, reply>>

-----------------------------------------------------------------------------
(* States of the two actors.                                               *)

\* A handler is suspended at an await, and can be dropped there, in these.
Awaiting == {"waiting", "granted", "joining", "persisting"}

\* A handler that was admitted and is still alive owns an admission permit.
Holding == {"admitted"} \union Awaiting

Finished == {"answered", "dropped"}

\* A blocking closure owns its CPU permit from spawn_blocking to its end.
OnCpu == {"queued", "running", "closing"}

Results == {"none", "verified", "refused", "panicked"}
Branch == {"idle", "pending", "ok", "failed"}
Replies == {"none", "ServerBusy", "BadRequest", "InternalError",
            "PersistFailed", "Success"}

Init ==
  /\ admit_free = MAX_INFLIGHT
  /\ verify_free = VERIFY_CONCURRENCY
  /\ waiters = <<>>
  /\ pc = [r \in Requests |-> "new"]
  /\ task = [r \in Requests |-> "none"]
  /\ result = [r \in Requests |-> "none"]
  /\ in_flight = 0
  /\ external = [r \in Requests |-> "idle"]
  /\ store_cts = [r \in Requests |-> "idle"]
  /\ reply = [r \in Requests |-> "none"]

-----------------------------------------------------------------------------
(* Releasing a permit.                                                     *)

\* Mutant of Answer: the permit was forgotten on the way out.
AnswerKeepsPermit(r, what) ==
  /\ pc' = [pc EXCEPT ![r] = "answered"]
  /\ reply' = [reply EXCEPT ![r] = what]
  /\ admit_free' = admit_free

\* The handler returns: the client gets its answer and _admit is dropped.
Answer(r, what) ==
  /\ pc' = [pc EXCEPT ![r] = "answered"]
  /\ reply' = [reply EXCEPT ![r] = what]
  /\ admit_free' = admit_free + 1

\* Mutant of ReleaseVerify: the permit returns to the pool and wakes nobody.
ReleaseVerifyWakesNobody(control, queue) ==
  /\ verify_free' = verify_free + 1
  /\ waiters' = queue
  /\ pc' = control

\* Mutant of ReleaseVerify: the last waiter is served first.
ReleaseVerifyLifo(control, queue) ==
  IF queue = <<>>
    THEN /\ verify_free' = verify_free + 1
         /\ waiters' = queue
         /\ pc' = control
    ELSE /\ verify_free' = verify_free
         /\ waiters' = Front(queue)
         /\ pc' = [control EXCEPT ![Last(queue)] = "granted"]

\* A released CPU permit goes to the first waiter, and to the pool only when
\* nobody waits: tokio's semaphore is fair.  "control" is pc as the releasing
\* step leaves it and "queue" the waiters it leaves.
ReleaseVerify(control, queue) ==
  IF queue = <<>>
    THEN /\ verify_free' = verify_free + 1
         /\ waiters' = queue
         /\ pc' = control
    ELSE /\ verify_free' = verify_free
         /\ waiters' = Tail(queue)
         /\ pc' = [control EXCEPT ![Head(queue)] = "granted"]

-----------------------------------------------------------------------------
(* The handler, up to the blocking task.                                   *)

\* Mutant of Admit: the cap is not looked at.
AdmitUnchecked(r) ==
  /\ pc[r] = "new"
  /\ admit_free' = admit_free - 1
  /\ pc' = [pc EXCEPT ![r] = "admitted"]
  /\ UNCHANGED <<verify_free, waiters, task, result, in_flight, external,
                 store_cts, reply>>

\* admit: try_acquire_owned never waits.
Admit(r) ==
  /\ pc[r] = "new"
  /\ admit_free > 0
  /\ admit_free' = admit_free - 1
  /\ pc' = [pc EXCEPT ![r] = "admitted"]
  /\ UNCHANGED <<verify_free, waiters, task, result, in_flight, external,
                 store_cts, reply>>

\* admit found no permit: 503 with Retry-After, nothing is held.
Shed(r) ==
  /\ pc[r] = "new"
  /\ admit_free = 0
  /\ pc' = [pc EXCEPT ![r] = "answered"]
  /\ reply' = [reply EXCEPT ![r] = "ServerBusy"]
  /\ UNCHANGED <<admit_free, verify_free, waiters, task, result, in_flight,
                 external, store_cts>>

\* canonical_contract_address refused the address, before any CPU is spent.
RejectContract(r) ==
  /\ pc[r] = "admitted"
  /\ Answer(r, "BadRequest")
  /\ UNCHANGED <<verify_free, waiters, task, result, in_flight, external,
                 store_cts>>

\* acquire_owned succeeds at once; no await separates it from spawn_blocking.
AcquireNow(r) ==
  /\ pc[r] = "admitted"
  /\ verify_free > 0
  /\ verify_free' = verify_free - 1
  /\ pc' = [pc EXCEPT ![r] = "joining"]
  /\ task' = [task EXCEPT ![r] = "queued"]
  /\ UNCHANGED <<admit_free, waiters, result, in_flight, external, store_cts,
                 reply>>

\* acquire_owned finds the gate full and queues the handler.
Wait(r) ==
  /\ pc[r] = "admitted"
  /\ verify_free = 0
  /\ pc' = [pc EXCEPT ![r] = "waiting"]
  /\ waiters' = Append(waiters, r)
  /\ UNCHANGED <<admit_free, verify_free, task, result, in_flight, external,
                 store_cts, reply>>

\* The handler that was handed a permit is polled again and spawns its task.
Resume(r) ==
  /\ pc[r] = "granted"
  /\ pc' = [pc EXCEPT ![r] = "joining"]
  /\ task' = [task EXCEPT ![r] = "queued"]
  /\ UNCHANGED <<admit_free, verify_free, waiters, result, in_flight,
                 external, store_cts, reply>>

-----------------------------------------------------------------------------
(* The blocking task.  Its locals are dropped in reverse order, on a       *)
(* return and on a panic alike: the gauge guard first, the CPU permit      *)
(* last, and only then is the join ready.                                  *)

StartTask(r) ==
  /\ task[r] = "queued"
  /\ task' = [task EXCEPT ![r] = "running"]
  /\ in_flight' = in_flight + 1
  /\ UNCHANGED <<admit_free, verify_free, waiters, pc, result, external,
                 store_cts, reply>>

\* Mutant of FinishRun: the gauge is decremented by hand, after the run, and a
\* panic skips it.
FinishRunWithoutGuard(r) ==
  /\ task[r] = "running"
  /\ task' = [task EXCEPT ![r] = "closing"]
  /\ \E res \in {"verified", "refused", "panicked"} :
       /\ result' = [result EXCEPT ![r] = res]
       /\ in_flight' = IF res = "panicked" THEN in_flight ELSE in_flight - 1
  /\ UNCHANGED <<admit_free, verify_free, waiters, pc, external, store_cts,
                 reply>>

\* verify_and_sign_batch_impl ends: a signed batch, an error (the list does
\* not deserialize, the proof is invalid, signing fails) or a panic.
FinishRun(r) ==
  /\ task[r] = "running"
  /\ task' = [task EXCEPT ![r] = "closing"]
  /\ in_flight' = in_flight - 1
  /\ \E res \in {"verified", "refused", "panicked"} :
       result' = [result EXCEPT ![r] = res]
  /\ UNCHANGED <<admit_free, verify_free, waiters, pc, external, store_cts,
                 reply>>

\* Mutant of ReleaseCpu: the permit is released by hand and a panic skips it.
ReleaseCpuUnlessPanic(r) ==
  /\ task[r] = "closing"
  /\ task' = [task EXCEPT ![r] = "done"]
  /\ IF result[r] = "panicked"
       THEN UNCHANGED <<verify_free, waiters, pc>>
       ELSE ReleaseVerify(pc, waiters)
  /\ UNCHANGED <<admit_free, result, in_flight, external, store_cts, reply>>

ReleaseCpu(r) ==
  /\ task[r] = "closing"
  /\ task' = [task EXCEPT ![r] = "done"]
  /\ ReleaseVerify(pc, waiters)
  /\ UNCHANGED <<admit_free, result, in_flight, external, store_cts, reply>>

-----------------------------------------------------------------------------
(* The handler, from the join to the answer.                               *)

\* The join yields a signed batch: both branches of persist_cts start.
BeginPersist(r) ==
  /\ pc[r] = "joining" /\ task[r] = "done"
  /\ result[r] = "verified"
  /\ pc' = [pc EXCEPT ![r] = "persisting"]
  /\ external' = [external EXCEPT ![r] = "pending"]
  /\ store_cts' = [store_cts EXCEPT ![r] = "pending"]
  /\ UNCHANGED <<admit_free, verify_free, waiters, task, result, in_flight,
                 reply>>

\* Mutant of JoinFailed: a panicked task is not answered.
JoinFailedIgnoresPanic(r) ==
  /\ pc[r] = "joining" /\ task[r] = "done"
  /\ result[r] = "refused"
  /\ Answer(r, "BadRequest")
  /\ UNCHANGED <<verify_free, waiters, task, result, in_flight, external,
                 store_cts>>

\* The join yields an error (400) or a panic (500, without its text).
JoinFailed(r) ==
  /\ pc[r] = "joining" /\ task[r] = "done"
  /\ result[r] # "verified"
  /\ Answer(r, IF result[r] = "refused" THEN "BadRequest" ELSE "InternalError")
  /\ UNCHANGED <<verify_free, waiters, task, result, in_flight, external,
                 store_cts>>

FinishExternal(r) ==
  /\ pc[r] = "persisting" /\ external[r] = "pending"
  /\ \E out \in {"ok", "failed"} : external' = [external EXCEPT ![r] = out]
  /\ UNCHANGED <<admit_free, verify_free, waiters, pc, task, result,
                 in_flight, store_cts, reply>>

FinishStoreCts(r) ==
  /\ pc[r] = "persisting" /\ store_cts[r] = "pending"
  /\ \E out \in {"ok", "failed"} : store_cts' = [store_cts EXCEPT ![r] = out]
  /\ UNCHANGED <<admit_free, verify_free, waiters, pc, task, result,
                 in_flight, external, reply>>

\* Mutant of FinishPersist: the answer does not wait for StoreCts.
FinishPersistEarly(r) ==
  /\ pc[r] = "persisting"
  /\ external[r] # "pending"
  /\ Answer(r, IF external[r] = "ok" /\ store_cts[r] # "failed"
                 THEN "Success" ELSE "PersistFailed")
  /\ UNCHANGED <<verify_free, waiters, task, result, in_flight, external,
                 store_cts>>

\* tokio::join! waits for both branches; any failure fails the request.
FinishPersist(r) ==
  /\ pc[r] = "persisting"
  /\ external[r] # "pending" /\ store_cts[r] # "pending"
  /\ Answer(r, IF external[r] = "ok" /\ store_cts[r] = "ok"
                 THEN "Success" ELSE "PersistFailed")
  /\ UNCHANGED <<verify_free, waiters, task, result, in_flight, external,
                 store_cts>>

-----------------------------------------------------------------------------
(* The client goes away while its handler is suspended: the future is      *)
(* dropped with its admission permit.  A queued waiter leaves the queue, a *)
(* permit handed to it but not yet taken goes to the next waiter, and a    *)
(* task already spawned runs on.                                           *)

Gone(r) == [pc EXCEPT ![r] = "dropped"]

\* Mutant of DropWaiter: the dropped handler stays in the queue.
DropWaiterKeepsPlace(r) ==
  /\ pc[r] = "waiting"
  /\ pc' = Gone(r)
  /\ UNCHANGED <<verify_free, waiters>>

DropWaiter(r) ==
  /\ pc[r] = "waiting"
  /\ \E i \in 1..Len(waiters) :
       waiters[i] = r /\ waiters' = RemoveAt(waiters, i)
  /\ pc' = Gone(r)
  /\ UNCHANGED verify_free

\* Mutant of DropGranted: the permit handed over dies with the handler.
DropGrantedLosesPermit(r) ==
  /\ pc[r] = "granted"
  /\ pc' = Gone(r)
  /\ UNCHANGED <<verify_free, waiters>>

DropGranted(r) ==
  /\ pc[r] = "granted"
  /\ ReleaseVerify(Gone(r), waiters)

DropLater(r) ==
  /\ pc[r] \in {"joining", "persisting"}
  /\ pc' = Gone(r)
  /\ UNCHANGED <<verify_free, waiters>>

Disconnect(r) ==
  /\ DropWaiter(r) \/ DropGranted(r) \/ DropLater(r)
  /\ admit_free' = admit_free + 1
  /\ UNCHANGED <<task, result, in_flight, external, store_cts, reply>>

-----------------------------------------------------------------------------

HandlerStep(r) ==
  \/ RejectContract(r) \/ AcquireNow(r) \/ Wait(r) \/ Resume(r)
  \/ BeginPersist(r) \/ JoinFailed(r) \/ FinishPersist(r)

TaskStep(r) == StartTask(r) \/ FinishRun(r) \/ ReleaseCpu(r)

\* Every request has left and every permit is home: the service is idle.
Idle ==
  /\ \A r \in Requests : pc[r] \in Finished /\ task[r] \in {"none", "done"}
  /\ UNCHANGED vars

Next ==
  \/ \E r \in Requests :
       \/ Admit(r) \/ Shed(r)
       \/ HandlerStep(r) \/ TaskStep(r)
       \/ FinishExternal(r) \/ FinishStoreCts(r)
       \/ Disconnect(r)
  \/ Idle

Spec == Init /\ [][Next]_vars

\* tokio polls every woken handler, the blocking pool runs every task to its
\* end, and every upload is bounded by a timeout and a retry budget.  Nothing
\* bounds the StoreCts call, so it gets no fairness here.
Fairness ==
  \A r \in Requests :
    WF_vars(HandlerStep(r)) /\ WF_vars(TaskStep(r)) /\ WF_vars(FinishExternal(r))

FairSpec == Spec /\ Fairness

-----------------------------------------------------------------------------
(* Safety.                                                                 *)

TypeOK ==
  /\ admit_free \in 0..MAX_INFLIGHT
  /\ verify_free \in 0..VERIFY_CONCURRENCY
  /\ waiters \in Seq(Requests)
  /\ pc \in [Requests -> {"new"} \union Holding \union Finished]
  /\ task \in [Requests -> {"none", "done"} \union OnCpu]
  /\ result \in [Requests -> Results]
  /\ in_flight \in Int
  /\ external \in [Requests -> Branch]
  /\ store_cts \in [Requests -> Branch]
  /\ reply \in [Requests -> Replies]

Admitted == {r \in Requests : pc[r] \in Holding}

CpuHolders == {r \in Requests : pc[r] = "granted" \/ task[r] \in OnCpu}

\* An admission permit is out exactly for every admitted handler still alive:
\* no early return, error, panic or disconnect keeps or doubles one
\* (_admit in verify_and_sign_batch).
AdmissionConserved == admit_free + Cardinality(Admitted) = MAX_INFLIGHT

\* A CPU permit is out exactly for every handler that was handed one and every
\* verification not yet over, orphans of a disconnect included (gated_verify).
CpuPermitsConserved ==
  verify_free + Cardinality(CpuHolders) = VERIFY_CONCURRENCY

\* The queue of verify_sem is the live waiting handlers, each once: a handler
\* that was dropped in the queue can never be handed a permit.
QueueIsWaiters ==
  /\ \A i \in 1..Len(waiters) : pc[waiters[i]] = "waiting"
  /\ \A r \in Requests : pc[r] = "waiting" => \E i \in 1..Len(waiters) : waiters[i] = r
  /\ \A i, j \in 1..Len(waiters) : waiters[i] = waiters[j] => i = j

\* A permit is never left in the pool while a handler waits for one: no wake-up
\* is lost between a release, a disconnect and a new arrival.
GateNeverIdles == waiters # <<>> => verify_free = 0

\* zk_verify_in_flight counts the verifications that run, across panics and
\* disconnects (InFlightGuard).
GaugeBalanced == in_flight = Cardinality({r \in Requests : task[r] = "running"})

\* The gauge never shows more verifications than permits taken: the guard is
\* dropped before the permit it rides with.
GaugeWithinGate == in_flight + verify_free <= VERIFY_CONCURRENCY

\* The CPU gate is first come, first served: no waiter is handed a permit
\* before an earlier one, and no newcomer takes one while a handler waits.
NoOvertaking ==
  [][/\ \A i, j \in 1..Len(waiters) :
          i < j /\ pc'[waiters[j]] = "granted" => pc'[waiters[i]] # "waiting"
     /\ \A r \in Requests :
          pc[r] = "admitted" /\ pc'[r] = "joining" => waiters = <<>>]_vars

\* The service seen from outside: BoundedService.
Promise == INSTANCE BoundedService WITH
  inside  <- Admitted,
  working <- {r \in Requests : task[r] \in OnCpu},
  proved  <- {r \in Requests : result[r] = "verified"},
  stored  <- {r \in Requests : external[r] = "ok" /\ store_cts[r] = "ok"},
  outcome <- [r \in Requests |-> IF pc[r] = "dropped" THEN "Gone" ELSE reply[r]]

\* The endpoint implements what BoundedService promises: it sheds only when
\* full, never runs more verifications than the gate, and answers success only
\* for a batch that was verified and accepted by both stores.
KeepsPromise == Promise!Spec

\* What the comment on AppState::admit_sem says: the admission cap bounds the
\* total of requests in flight, the CPU stage included.
AdmissionBoundsInFlight ==
  Cardinality({r \in Requests : pc[r] \in Holding \/ task[r] \in OnCpu})
    <= MAX_INFLIGHT

-----------------------------------------------------------------------------
(* Liveness.                                                               *)

\* Every request that arrives is answered or abandoned, unless it comes to wait
\* for ct-server and for nothing else: only the StoreCts call, which has no
\* timeout, can keep an admission permit for good.
OnlyStoreCtsCanHold ==
  \A r \in Requests :
    pc[r] # "new"
      ~> \/ pc[r] \in Finished
         \/ pc[r] = "persisting" /\ external[r] # "pending" /\ store_cts[r] = "pending"
=============================================================================
