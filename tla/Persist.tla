------------------------------ MODULE Persist -------------------------------
(***************************************************************************)
(* One persist_cts call of zk-verifier (src/api/mod.rs) with both of its   *)
(* features on, as in production: the uploads of StorageManager            *)
(* (src/storage/storage_manager.rs), one per ciphertext and one for the    *)
(* proof, run together under try_join_all with a retry loop each, and in   *)
(* parallel the StoreCts call to ct-server with a retry loop of its own.   *)
(*                                                                         *)
(* A store is on the other side of a network: an attempt that was timed    *)
(* out, failed in transport, or whose future was dropped may still land,   *)
(* later, or never.                                                        *)
(***************************************************************************)
EXTENDS Integers, FiniteSets, FiniteSetsExt

CONSTANTS
  Objects,         \* what is uploaded: the batch's ciphertexts and its proof
  Ahead,           \* the uploads whose results try_join_all reads before one's
  MAX_RETRIES,     \* retry_config.max_retries
  INITIAL_DELAY,   \* retry_config.initial_delay_ms
  MAX_DELAY,       \* retry_config.max_delay_ms
  CTS_RETRIES,     \* max_retries of store_cts_internally_retryable (5)
  CTS_DELAY        \* its initial_delay_ms (1000)

\* What RetryConfig::validate lets through; the other two are literals.
ASSUME RetryAssumption ==
  /\ MAX_RETRIES \in Nat \ {0}
  /\ INITIAL_DELAY \in Nat /\ MAX_DELAY \in Nat /\ INITIAL_DELAY <= MAX_DELAY
  /\ CTS_RETRIES \in Nat /\ CTS_DELAY \in Nat

\* A batch has at least one ciphertext (sign_batch refuses an empty one).
ASSUME ObjectsAssumption == Objects # {} /\ IsFiniteSet(Objects)

\* Up to 30 futures, try_join_all reads every result as it comes: Ahead is
\* empty throughout.  Above that it reads them in the order of the futures.
ASSUME AheadAssumption == Ahead \in [Objects -> SUBSET Objects]

VARIABLES
  up,            \* where each upload's retry loop is
  attempts,      \* its count of failed attempts
  delay,         \* its next backoff, delay_ms
  fault,         \* its last error
  uploads,       \* upload calls started for it
  recorded,      \* increments of storage_persist_total for it
  storage,       \* the result of store_proof_and_cts
  bucket,        \* the objects that are in the bucket
  loose,         \* objects with an abandoned attempt that may still land
  cts,           \* where the StoreCts retry loop is
  retries_left,  \* its countdown
  cts_delay,     \* its next backoff
  posts,         \* POST /StoreCts calls started
  cts_recorded,  \* increments of store_cts_total
  delivered,     \* times ct-server has processed the batch
  cts_loose,     \* abandoned POSTs that may still be processed
  client,        \* the request this call serves
  status         \* the HTTP status it was answered

uploadVars == <<up, attempts, delay, fault, uploads, recorded, storage>>
ctsVars == <<cts, retries_left, cts_delay, posts, cts_recorded>>
remoteVars == <<bucket, loose, delivered, cts_loose>>
clientVars == <<client, status>>
vars == <<uploadVars, ctsVars, remoteVars, clientVars>>

-----------------------------------------------------------------------------
(* StorageError.                                                           *)

\* is_retryable
Retryable == {"Network", "Timeout", "Generic"}

\* What classify_error and the upload timeout can make of one attempt.
AttemptErrors == Retryable \union {"PermissionDenied", "NotFound"}

\* The attempts whose request may have reached the bucket all the same.
Ambiguous == {"Network", "Timeout"}

StorageErrors == AttemptErrors \union {"Serialization"}

StatusOf(kind) ==
  CASE kind = "Timeout" -> 504
    [] kind = "Network" -> 502
    [] kind = "PermissionDenied" -> 403
    [] kind = "NotFound" -> 404
    [] kind = "Serialization" -> 400
    [] OTHER -> 500

-----------------------------------------------------------------------------

Init ==
  /\ up = [o \in Objects |-> "start"]
  /\ attempts = [o \in Objects |-> 0]
  /\ delay = [o \in Objects |-> INITIAL_DELAY]
  /\ fault = [o \in Objects |-> "none"]
  /\ uploads = [o \in Objects |-> 0]
  /\ recorded = [o \in Objects |-> 0]
  /\ storage = "running"
  /\ bucket = {} /\ loose = {}
  /\ cts = "calling"
  /\ retries_left = CTS_RETRIES
  /\ cts_delay = CTS_DELAY
  /\ posts = 1
  /\ cts_recorded = 0
  /\ delivered = 0 /\ cts_loose = 0
  /\ client = "waiting" /\ status = 0

\* The request's future is polled and its storage branch is not over.
Uploading == client = "waiting" /\ storage = "running"

-----------------------------------------------------------------------------
(* try_join_all.                                                           *)

\* The failure of o is the next result to be read.
Seen(o, now) == now[o] = "failed" /\ \A p \in Ahead[o] : now[p] = "stored"

\* Dropping every upload that is not over; what it had sent may still land.
Drop(now, adrift) ==
  /\ up' = [p \in Objects |-> IF now[p] \in {"stored", "failed"} THEN now[p]
                              ELSE "cancelled"]
  /\ loose' = loose \union adrift \union {p \in Objects : now[p] = "sending"}

\* Mutant of Join: the siblings of a failed upload are left running.
JoinKeepsSiblings(now, errors, adrift) ==
  /\ up' = now
  /\ loose' = loose \union adrift
  /\ \/ \E o \in Objects : Seen(o, now) /\ storage' = errors[o]
     \/ /\ \A o \in Objects : ~Seen(o, now)
        /\ storage' = IF \A p \in Objects : now[p] = "stored" THEN "ok" ELSE storage

\* Mutant of Join: the last success is not noticed.
JoinStale(now, errors, adrift) ==
  \/ \E o \in Objects : Seen(o, now) /\ storage' = errors[o] /\ Drop(now, adrift)
  \/ /\ \A o \in Objects : ~Seen(o, now)
     /\ storage' = IF \A p \in Objects : up[p] = "stored" THEN "ok" ELSE storage
     /\ up' = now
     /\ loose' = loose \union adrift

\* One upload came to its end, which leaves them at "now" with "errors": the
\* first failure that is read becomes the result and drops the siblings, and
\* the last success completes the join.
Join(now, errors, adrift) ==
  \/ \E o \in Objects : Seen(o, now) /\ storage' = errors[o] /\ Drop(now, adrift)
  \/ /\ \A o \in Objects : ~Seen(o, now)
     /\ storage' = IF \A p \in Objects : now[p] = "stored" THEN "ok" ELSE storage
     /\ up' = now
     /\ loose' = loose \union adrift

\* The requests that may land although their attempt failed with "kind".
Adrift(o, kind) == IF kind \in Ambiguous THEN {o} ELSE {}

Fail(o, kind) ==
  /\ fault' = [fault EXCEPT ![o] = kind]
  /\ Join([up EXCEPT ![o] = "failed"], fault', Adrift(o, kind))

-----------------------------------------------------------------------------
(* The uploads.                                                            *)

\* The object serializes and the first attempt is sent.
StartUpload(o) ==
  /\ Uploading /\ up[o] = "start"
  /\ up' = [up EXCEPT ![o] = "sending"]
  /\ uploads' = [uploads EXCEPT ![o] = @ + 1]
  /\ UNCHANGED <<attempts, delay, fault, recorded, storage, ctsVars,
                 remoteVars, clientVars>>

\* to_bytes fails before the retry loop: nothing is sent, nothing recorded.
SerializeFails(o) ==
  /\ Uploading /\ up[o] = "start"
  /\ Fail(o, "Serialization")
  /\ UNCHANGED <<attempts, delay, uploads, recorded, ctsVars, bucket, delivered,
                 cts_loose, clientVars>>

\* An attempt succeeds.
UploadOk(o) ==
  /\ Uploading /\ up[o] = "sending"
  /\ Join([up EXCEPT ![o] = "stored"], fault, {})
  /\ bucket' = bucket \union {o}
  /\ recorded' = [recorded EXCEPT ![o] = @ + 1]
  /\ UNCHANGED <<attempts, delay, fault, uploads, ctsVars, delivered,
                 cts_loose, clientVars>>

\* Mutant of UploadRetried: the outcome is counted per attempt.
UploadRetriedRecorded(o) ==
  /\ Uploading /\ up[o] = "sending"
  /\ attempts' = [attempts EXCEPT ![o] = @ + 1]
  /\ attempts[o] + 1 <= MAX_RETRIES
  /\ \E kind \in Retryable :
       /\ fault' = [fault EXCEPT ![o] = kind]
       /\ loose' = loose \union Adrift(o, kind)
  /\ up' = [up EXCEPT ![o] = "backoff"]
  /\ recorded' = [recorded EXCEPT ![o] = @ + 1]
  /\ UNCHANGED <<delay, uploads, storage, bucket, delivered, cts_loose, ctsVars,
                 clientVars>>

\* A failed attempt is retried: retryable, and within the budget.
UploadRetried(o) ==
  /\ Uploading /\ up[o] = "sending"
  /\ attempts' = [attempts EXCEPT ![o] = @ + 1]
  /\ attempts[o] + 1 <= MAX_RETRIES
  /\ \E kind \in Retryable :
       /\ fault' = [fault EXCEPT ![o] = kind]
       /\ loose' = loose \union Adrift(o, kind)
  /\ up' = [up EXCEPT ![o] = "backoff"]
  /\ UNCHANGED <<delay, uploads, recorded, storage, bucket, delivered, cts_loose,
                 ctsVars, clientVars>>

\* Mutant of UploadGivesUp: the last retry is never made.
UploadGivesUpEarly(o) ==
  /\ Uploading /\ up[o] = "sending"
  /\ attempts' = [attempts EXCEPT ![o] = @ + 1]
  /\ \E kind \in AttemptErrors :
       /\ kind \in Retryable => attempts[o] + 1 >= MAX_RETRIES
       /\ Fail(o, kind)
  /\ recorded' = [recorded EXCEPT ![o] = @ + 1]
  /\ UNCHANGED <<delay, uploads, bucket, delivered, cts_loose, ctsVars,
                 clientVars>>

\* A failed attempt is final: not retryable, or the budget is spent.
UploadGivesUp(o) ==
  /\ Uploading /\ up[o] = "sending"
  /\ attempts' = [attempts EXCEPT ![o] = @ + 1]
  /\ \E kind \in AttemptErrors :
       /\ kind \in Retryable => attempts[o] + 1 > MAX_RETRIES
       /\ Fail(o, kind)
  /\ recorded' = [recorded EXCEPT ![o] = @ + 1]
  /\ UNCHANGED <<delay, uploads, bucket, delivered, cts_loose, ctsVars,
                 clientVars>>

\* Mutant of BackoffEnds: the cap is forgotten.
BackoffEndsUncapped(o) ==
  /\ Uploading /\ up[o] = "backoff"
  /\ up' = [up EXCEPT ![o] = "sending"]
  /\ delay' = [delay EXCEPT ![o] = @ * 2]
  /\ uploads' = [uploads EXCEPT ![o] = @ + 1]
  /\ UNCHANGED <<attempts, fault, recorded, storage, ctsVars, remoteVars,
                 clientVars>>

\* The backoff sleep ends: the next one is doubled up to the cap.
BackoffEnds(o) ==
  /\ Uploading /\ up[o] = "backoff"
  /\ up' = [up EXCEPT ![o] = "sending"]
  /\ delay' = [delay EXCEPT ![o] = IF @ * 2 < MAX_DELAY THEN @ * 2 ELSE MAX_DELAY]
  /\ uploads' = [uploads EXCEPT ![o] = @ + 1]
  /\ UNCHANGED <<attempts, fault, recorded, storage, ctsVars, remoteVars,
                 clientVars>>

-----------------------------------------------------------------------------
(* StoreCts.                                                               *)

\* The outcome of one POST that was not acknowledged: it never arrived or was
\* refused, or its answer was lost and it is processed all the same.
Unacknowledged == cts_loose' \in {cts_loose, cts_loose + 1}

PostOk ==
  /\ client = "waiting" /\ cts = "calling"
  /\ cts' = "ok" /\ delivered' = delivered + 1
  /\ cts_recorded' = cts_recorded + 1
  /\ UNCHANGED <<uploadVars, retries_left, cts_delay, posts, bucket, loose,
                 cts_loose, clientVars>>

\* Mutant of PostRetried: a retry that follows a lost answer is not counted.
PostRetriedUncounted ==
  /\ client = "waiting" /\ cts = "calling"
  /\ retries_left > 0
  /\ Unacknowledged
  /\ retries_left' = IF cts_loose' = cts_loose THEN retries_left - 1 ELSE retries_left
  /\ cts' = "sleeping"
  /\ UNCHANGED <<uploadVars, cts_delay, posts, cts_recorded, bucket, loose,
                 delivered, clientVars>>

\* Any error is retried, a refusal as well as a lost answer.
PostRetried ==
  /\ client = "waiting" /\ cts = "calling"
  /\ retries_left > 0
  /\ retries_left' = retries_left - 1
  /\ cts' = "sleeping"
  /\ Unacknowledged
  /\ UNCHANGED <<uploadVars, cts_delay, posts, cts_recorded, bucket, loose,
                 delivered, clientVars>>

PostGivesUp ==
  /\ client = "waiting" /\ cts = "calling"
  /\ retries_left = 0
  /\ cts' = "error"
  /\ cts_recorded' = cts_recorded + 1
  /\ Unacknowledged
  /\ UNCHANGED <<uploadVars, retries_left, cts_delay, posts, bucket, loose,
                 delivered, clientVars>>

SleepEnds ==
  /\ client = "waiting" /\ cts = "sleeping"
  /\ cts' = "calling"
  /\ cts_delay' = cts_delay * 2
  /\ posts' = posts + 1
  /\ UNCHANGED <<uploadVars, retries_left, cts_recorded, remoteVars, clientVars>>

-----------------------------------------------------------------------------
(* The request.                                                            *)

\* Mutant of Answer: only a failure of both stores fails the request.
AnswerIfAnyStored ==
  /\ client = "waiting"
  /\ storage # "running" /\ cts \in {"ok", "error"}
  /\ client' = "answered"
  /\ status' = IF storage # "ok" /\ cts = "error" THEN StatusOf(storage) ELSE 200
  /\ UNCHANGED <<uploadVars, ctsVars, remoteVars>>

\* Mutant of Answer: it waits for StoreCts to succeed.
AnswerOnSuccess ==
  /\ client = "waiting"
  /\ storage # "running" /\ cts = "ok"
  /\ client' = "answered"
  /\ status' = IF storage # "ok" THEN StatusOf(storage) ELSE 200
  /\ UNCHANGED <<uploadVars, ctsVars, remoteVars>>

\* tokio::join! has both results; the external one names the status first.
Answer ==
  /\ client = "waiting"
  /\ storage # "running" /\ cts \in {"ok", "error"}
  /\ client' = "answered"
  /\ status' = IF storage # "ok" THEN StatusOf(storage)
               ELSE IF cts = "error" THEN 500 ELSE 200
  /\ UNCHANGED <<uploadVars, ctsVars, remoteVars>>

\* The client disconnects: every future of the call is dropped where it is.
Disconnect ==
  /\ client = "waiting"
  /\ client' = "gone"
  /\ loose' = loose \union {o \in Objects : up[o] = "sending"}
  /\ cts_loose' = IF cts = "calling" THEN cts_loose + 1 ELSE cts_loose
  /\ UNCHANGED <<uploadVars, ctsVars, bucket, delivered, status>>

-----------------------------------------------------------------------------
(* The other side of the network.                                          *)

LateUpload(o) ==
  /\ o \in loose
  /\ loose' = loose \ {o}
  /\ bucket' = bucket \union {o}
  /\ UNCHANGED <<uploadVars, ctsVars, delivered, cts_loose, clientVars>>

LatePost ==
  /\ cts_loose > 0
  /\ cts_loose' = cts_loose - 1
  /\ delivered' = delivered + 1
  /\ UNCHANGED <<uploadVars, ctsVars, bucket, loose, clientVars>>

-----------------------------------------------------------------------------

UploadStep(o) ==
  \/ StartUpload(o) \/ SerializeFails(o)
  \/ UploadOk(o) \/ UploadRetried(o) \/ UploadGivesUp(o)
  \/ BackoffEnds(o)

PostStep == PostOk \/ PostRetried \/ PostGivesUp

\* The call is over.
Over == client # "waiting" /\ UNCHANGED vars

Next ==
  \/ \E o \in Objects : UploadStep(o) \/ LateUpload(o)
  \/ PostStep \/ SleepEnds \/ LatePost
  \/ Answer \/ Disconnect
  \/ Over

Spec == Init /\ [][Next]_vars

\* Every upload attempt ends, by the timeout around it if by nothing else, and
\* every sleep ends.  A POST has no timeout and gets no fairness.
FairSpec ==
  /\ Spec
  /\ \A o \in Objects : WF_vars(UploadStep(o))
  /\ WF_vars(SleepEnds) /\ WF_vars(Answer)

-----------------------------------------------------------------------------
(* Safety.                                                                 *)

TypeOK ==
  /\ up \in [Objects -> {"start", "sending", "backoff", "stored", "failed", "cancelled"}]
  /\ attempts \in [Objects -> Nat]
  /\ delay \in [Objects -> Nat]
  /\ fault \in [Objects -> StorageErrors \union {"none"}]
  /\ uploads \in [Objects -> Nat]
  /\ recorded \in [Objects -> Nat]
  /\ storage \in StorageErrors \union {"running", "ok"}
  /\ bucket \subseteq Objects /\ loose \subseteq Objects
  /\ cts \in {"calling", "sleeping", "ok", "error"}
  /\ retries_left \in 0..CTS_RETRIES
  /\ cts_delay \in Nat
  /\ posts \in Nat
  /\ cts_recorded \in Nat
  /\ delivered \in Nat /\ cts_loose \in Nat
  /\ client \in {"waiting", "answered", "gone"}
  /\ status \in {0, 200, 400, 403, 404, 500, 502, 504}

\* A client told 200 finds every ciphertext and the proof in the bucket and
\* the batch at ct-server, whatever was retried, lost or late on the way
\* ("BOTH must succeed" in persist_cts).
SuccessIsDurable == status = 200 => bucket = Objects /\ delivered > 0

\* A retry loop ends on a retryable error only after 1 + MAX_RETRIES attempts,
\* no sooner and no later, and the StoreCts loop likewise: no path through the
\* two differently counted loops loses or adds an attempt.
RetryBudgetIsSpent ==
  /\ \A o \in Objects :
       /\ uploads[o] <= MAX_RETRIES + 1
       /\ up[o] = "failed" /\ fault[o] \in Retryable => uploads[o] = MAX_RETRIES + 1
  /\ posts <= CTS_RETRIES + 1
  /\ cts = "error" => posts = CTS_RETRIES + 1

\* A POST is in the air: sent, and neither answered nor abandoned.
InTheAir == client = "waiting" /\ cts = "calling"

\* A POST whose answer was lost is sent again, so ct-server may process the
\* batch more than once, but never more often than the countdown allows: every
\* delivery, late ones included, is a POST of its own that is no longer in the
\* air, and none is started after an acknowledgment or a disconnect.
DeliveriesWithinBudget ==
  delivered + cts_loose + (IF InTheAir THEN 1 ELSE 0)
    <= CTS_RETRIES - retries_left + (IF cts = "sleeping" THEN 0 ELSE 1)

\* A failure is read as soon as every upload ahead of it is stored; it names
\* the storage result, and every other upload is by then over or dropped: the
\* status the client is sent has one cause, and nothing still runs that could
\* name another.
FirstFailureDecides ==
  /\ storage = "running" => \A o \in Objects : ~Seen(o, up)
  /\ storage \in StorageErrors =>
       /\ \E o \in Objects : Seen(o, up) /\ storage = fault[o]
       /\ \A o \in Objects : up[o] \in {"stored", "failed", "cancelled"}

\* storage_persist_total and store_cts_total count operations, not attempts:
\* an operation that ended after its attempts was counted once and one that
\* has not ended was not counted.
OutcomeRecordedOnce ==
  /\ \A o \in Objects :
       recorded[o] = IF up[o] = "stored" \/ (up[o] = "failed" /\ uploads[o] > 0)
                       THEN 1 ELSE 0
  /\ cts_recorded = IF cts \in {"ok", "error"} THEN 1 ELSE 0

\* The backoff after n sleeps is the initial delay doubled n times, up to the
\* cap: the doubling and the attempt count never drift apart, and the cap
\* holds from the first sleep on.
BackoffDoublesToCap ==
  \A o \in Objects :
    uploads[o] > 0 =>
      delay[o] = Min({INITIAL_DELAY * 2^(uploads[o] - 1), MAX_DELAY})

\* The comment on record_persist_outcome: one increment per logical persist.
OneOutcomePerPersist ==
  client = "answered" =>
    \A o \in Objects : uploads[o] > 0 => recorded[o] = 1

-----------------------------------------------------------------------------
(* Liveness.                                                               *)

\* The request is answered or abandoned, unless it comes to wait for one POST
\* and nothing else: the countdown reaches zero, and tokio::join! answers as
\* soon as it has both results, failures too.
OnlyAPostCanHold ==
  []<>(client # "waiting" \/ (storage # "running" /\ cts = "calling"))
=============================================================================
