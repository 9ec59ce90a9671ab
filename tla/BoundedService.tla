--------------------------- MODULE BoundedService ---------------------------
(***************************************************************************)
(* What the /verifyBatch endpoint promises, without semaphores, queues or  *)
(* tasks: at most MAX_INFLIGHT requests are inside the service, at most    *)
(* VERIFY_CONCURRENCY proof verifications run, a request is shed only when *)
(* the service is full, and a success is answered only for a batch that    *)
(* was verified and stored.  A verification may outlive the request that   *)
(* asked for it.  VerifyBatch implements this module.                      *)
(***************************************************************************)
EXTENDS Naturals, FiniteSets

CONSTANTS Requests, MAX_INFLIGHT, VERIFY_CONCURRENCY

VARIABLES
  inside,    \* requests the service has admitted and not yet let go
  working,   \* requests whose proof verification holds a CPU slot
  proved,    \* requests whose proof was found valid
  stored,    \* requests whose batch every store accepted
  outcome    \* what became of the request

vars == <<inside, working, proved, stored, outcome>>

Refusals == {"BadRequest", "InternalError", "PersistFailed", "Gone"}

Init ==
  /\ inside = {} /\ working = {} /\ proved = {} /\ stored = {}
  /\ outcome = [r \in Requests |-> "none"]

Outside(r) == outcome[r] = "none" /\ r \notin inside

Enter(r) ==
  /\ Outside(r)
  /\ Cardinality(inside) < MAX_INFLIGHT
  /\ inside' = inside \union {r}
  /\ UNCHANGED <<working, proved, stored, outcome>>

Shed(r) ==
  /\ Outside(r)
  /\ Cardinality(inside) >= MAX_INFLIGHT
  /\ outcome' = [outcome EXCEPT ![r] = "ServerBusy"]
  /\ UNCHANGED <<inside, working, proved, stored>>

BeginWork(r) ==
  /\ r \in inside \ working
  /\ Cardinality(working) < VERIFY_CONCURRENCY
  /\ working' = working \union {r}
  /\ UNCHANGED <<inside, proved, stored, outcome>>

Prove(r) ==
  /\ r \in working
  /\ proved' = proved \union {r}
  /\ UNCHANGED <<inside, working, stored, outcome>>

EndWork(r) ==
  /\ r \in working
  /\ working' = working \ {r}
  /\ UNCHANGED <<inside, proved, stored, outcome>>

Store(r) ==
  /\ r \in (inside \intersect proved) \ working
  /\ stored' = stored \union {r}
  /\ UNCHANGED <<inside, working, proved, outcome>>

Leave(r, what) ==
  /\ r \in inside
  /\ what = "Success" => r \in (proved \intersect stored) \ working
  /\ inside' = inside \ {r}
  /\ outcome' = [outcome EXCEPT ![r] = what]
  /\ UNCHANGED <<working, proved, stored>>

Next ==
  \E r \in Requests :
    \/ Enter(r) \/ Shed(r)
    \/ BeginWork(r) \/ Prove(r) \/ EndWork(r)
    \/ Store(r)
    \/ \E what \in Refusals \union {"Success"} : Leave(r, what)

Spec == Init /\ [][Next]_vars
=============================================================================
