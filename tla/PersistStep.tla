----------------------------- MODULE PersistStep ------------------------------
(***************************************************************************)
(* Persist seen from the handler: the persist step of VerifyBatch.         *)
(*                                                                         *)
(* VerifyBatch takes persist_cts to be two branches that end, each on its  *)
(* own, and an answer that waits for both.  Persist is the code of that    *)
(* step.  Here one request of VerifyBatch stands where BeginPersist left   *)
(* it, with its branches read off the retry loops of Persist.              *)
(***************************************************************************)
EXTENDS Persist

it == "it"

\* store_proof_and_cts is one branch of the join, whatever its error.
ExternalBranch ==
  CASE storage = "running" -> "pending"
    [] storage = "ok" -> "ok"
    [] OTHER -> "failed"

\* store_cts_internally is the other, all its attempts and sleeps included.
StoreCtsBranch ==
  CASE cts = "ok" -> "ok"
    [] cts = "error" -> "failed"
    [] OTHER -> "pending"

Handler ==
  CASE client = "waiting" -> "persisting"
    [] client = "answered" -> "answered"
    [] client = "gone" -> "dropped"

Reply ==
  CASE status = 0 -> "none"
    [] status = 200 -> "Success"
    [] OTHER -> "PersistFailed"

\* The permit of the one request is out until it is answered or dropped.
Endpoint == INSTANCE VerifyBatch WITH
  Requests           <- {it},
  MAX_INFLIGHT       <- 1,
  VERIFY_CONCURRENCY <- 1,
  admit_free         <- IF client = "waiting" THEN 0 ELSE 1,
  verify_free        <- 1,
  waiters            <- <<>>,
  pc                 <- [r \in {it} |-> Handler],
  task               <- [r \in {it} |-> "done"],
  result             <- [r \in {it} |-> "verified"],
  in_flight          <- 0,
  external           <- [r \in {it} |-> ExternalBranch],
  store_cts          <- [r \in {it} |-> StoreCtsBranch],
  reply              <- [r \in {it} |-> Reply]

-----------------------------------------------------------------------------

\* Every step of the retry loops, the join of the uploads, the answer and a
\* disconnect is a step of the endpoint's persist step, or invisible to it.
RefinesPersistStep == [][Endpoint!Next]_(Endpoint!vars)

\* They keep the two promises, too, that VerifyBatch builds its liveness on, the
\* weak fairness of FinishExternal and of HandlerStep: the external branch ends,
\* because every upload is bounded by its timeout and its budget, and a handler
\* whose branches are over, well or badly, answers.
ImplementsPersistStep ==
  /\ RefinesPersistStep
  /\ []<>~(Handler = "persisting" /\ ExternalBranch = "pending")
  /\ []<>~(Handler = "persisting" /\ "pending" \notin {ExternalBranch, StoreCtsBranch})
=============================================================================
