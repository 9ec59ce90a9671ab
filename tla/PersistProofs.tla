---------------------------- MODULE PersistProofs ---------------------------
(***************************************************************************)
(* Theorems about Persist for every batch, every retry budget and every    *)
(* pair of delays.                                                         *)
(***************************************************************************)
EXTENDS PersistStep, FiniteSetTheorems, TLAPS

\* What the two counts and the last error of an upload are, by its position.
CountsAgree(pos, sent, failures, error) ==
  /\ pos = "start" => sent = 0 /\ failures = 0
  /\ pos \in {"sending", "stored"} => sent = failures + 1 /\ failures <= MAX_RETRIES
  /\ pos = "backoff" => sent = failures /\ failures <= MAX_RETRIES /\ failures > 0
  /\ pos = "failed" =>
       \/ sent = 0 /\ error = "Serialization"
       \/ /\ sent = failures /\ failures > 0 /\ failures <= MAX_RETRIES + 1
          /\ error \in AttemptErrors
          /\ error \in Retryable => failures = MAX_RETRIES + 1
  /\ sent <= MAX_RETRIES + 1

Counted ==
  \A o \in Objects : CountsAgree(up[o], uploads[o], attempts[o], fault[o])

\* The increments of storage_persist_total, by position.
TimesRecorded(pos, sent) ==
  IF pos = "stored" \/ (pos = "failed" /\ sent > 0) THEN 1 ELSE 0

\* While the join runs nothing is dropped; it succeeds when all are stored.
Joined ==
  /\ storage = "running" => \A o \in Objects : up[o] # "cancelled"
  /\ storage = "ok" => \A o \in Objects : up[o] = "stored"
  /\ \A o \in Objects : up[o] = "stored" => o \in bucket

\* The StoreCts countdown, its calls and what ct-server gets add up.
Countdown ==
  /\ posts + retries_left = IF cts = "sleeping" THEN CTS_RETRIES ELSE CTS_RETRIES + 1
  /\ cts = "error" => retries_left = 0
  /\ cts = "ok" => delivered > 0
  /\ DeliveriesWithinBudget

\* A status is sent once, and 200 only for two successes.
Verdict ==
  /\ client = "waiting" => status = 0
  /\ status = 200 => storage = "ok" /\ cts = "ok"

PInv ==
  /\ TypeOK
  /\ Counted
  /\ OutcomeRecordedOnce
  /\ Joined
  /\ FirstFailureDecides
  /\ Countdown
  /\ Verdict

LEMMA PInvInit == Init => PInv
<1> SUFFICES ASSUME Init PROVE PInv
  OBVIOUS
<1> USE RetryAssumption DEF Init
<1>a. delivered \in Nat /\ cts_loose \in Nat
  OBVIOUS
<1>b. retries_left \in 0..CTS_RETRIES /\ cts_delay \in Nat /\ posts \in Nat
  OBVIOUS
<1>c. delay \in [Objects -> Nat]
  OBVIOUS
<1>1. TypeOK
  BY <1>a, <1>b, <1>c DEF TypeOK, StorageErrors, AttemptErrors, Retryable
<1>2. Counted /\ OutcomeRecordedOnce
  BY DEF Counted, CountsAgree, OutcomeRecordedOnce
<1>3. Joined /\ FirstFailureDecides
  BY DEF Joined, FirstFailureDecides, Seen, StorageErrors, AttemptErrors, Retryable
<1>4. Countdown
  BY DEF Countdown, DeliveriesWithinBudget, InTheAir
<1>5. Verdict
  BY DEF Verdict
<1> QED BY <1>1, <1>2, <1>3, <1>4, <1>5 DEF PInv

\* Arithmetic of one POST that leaves the air without an acknowledgment.
LEMMA OneMoreFits ==
  ASSUME NEW got \in Nat, NEW adrift \in Nat, NEW more \in Nat,
         NEW left \in Nat, NEW budget \in Nat,
         more <= adrift + 1, got + adrift + 1 <= budget - left + 1
  PROVE  /\ got + more + 0 <= budget - (left - 1) + 0
         /\ got + more + 0 <= budget - left + 1
OBVIOUS

-----------------------------------------------------------------------------
(* Each action keeps the invariant.                                        *)

Positions == {"start", "sending", "backoff", "stored", "failed", "cancelled"}

\* What the join does to the uploads it reads: it leaves those that are over
\* alone, and all others too unless a failure is read.
LEMMA JoinEffect ==
  ASSUME NEW now \in [Objects -> Positions], NEW errors, NEW adrift,
         adrift \subseteq Objects, loose \subseteq Objects,
         storage = "running", \A p \in Objects : now[p] # "cancelled",
         \A p \in Objects : now[p] = "failed" => errors[p] \in StorageErrors,
         Join(now, errors, adrift)
  PROVE  /\ up' \in [Objects -> Positions]
         /\ loose' \subseteq Objects
         /\ \A p \in Objects :
              up'[p] = now[p] \/ (up'[p] = "cancelled"
                                  /\ now[p] \in {"start", "sending", "backoff"})
         /\ \/ /\ storage' = "running" /\ up' = now
               /\ \A p \in Objects : ~Seen(p, now)
            \/ /\ storage' = "ok" /\ up' = now
               /\ \A p \in Objects : now[p] = "stored"
            \/ /\ storage' \in StorageErrors
               /\ \E p \in Objects : Seen(p, up') /\ storage' = errors[p]
               /\ \A p \in Objects : up'[p] \in {"stored", "failed", "cancelled"}
<1>1. CASE \E p \in Objects : Seen(p, now) /\ storage' = errors[p] /\ Drop(now, adrift)
  <2>1. PICK p \in Objects : Seen(p, now) /\ storage' = errors[p] /\ Drop(now, adrift)
    BY <1>1
  <2>2. /\ up' = [q \in Objects |-> IF now[q] \in {"stored", "failed"} THEN now[q]
                                    ELSE "cancelled"]
        /\ loose' \subseteq Objects
    BY <2>1 DEF Drop
  <2>3. Seen(p, up') /\ storage' \in StorageErrors
    BY <2>1, <2>2, AheadAssumption DEF Seen
  <2> QED BY <2>1, <2>2, <2>3 DEF Positions
<1>2. CASE /\ \A o \in Objects : ~Seen(o, now)
           /\ storage' = IF \A p \in Objects : now[p] = "stored" THEN "ok" ELSE storage
           /\ up' = now
           /\ loose' = loose \union adrift
  BY <1>2
<1> QED BY <1>1, <1>2 DEF Join

\* Each step keeps the invariant: of an upload,
LEMMA UploadKeepsPInv ==
  ASSUME PInv, NEW o \in Objects, UploadStep(o)
  PROVE  PInv'
<1> USE RetryAssumption
<1>0. TypeOK /\ Counted /\ OutcomeRecordedOnce /\ Joined /\ FirstFailureDecides
      /\ Countdown /\ Verdict
  BY DEF PInv
<1>a. /\ client = "waiting" /\ storage = "running"
      /\ UNCHANGED <<ctsVars, delivered, cts_loose, clientVars>>
  BY DEF UploadStep, StartUpload, SerializeFails, UploadOk, UploadRetried,
         UploadGivesUp, BackoffEnds, Uploading, remoteVars
<1>b. Countdown'
  BY <1>0, <1>a DEF Countdown, DeliveriesWithinBudget, InTheAir, ctsVars, clientVars
<1>c. Verdict'
  BY <1>0, <1>a DEF Verdict, clientVars
<1>1. CASE StartUpload(o) \/ BackoffEnds(o)
  <2>1. TypeOK'
    BY <1>0, <1>a, <1>1
       DEF TypeOK, StartUpload, BackoffEnds, ctsVars, clientVars, remoteVars
  <2>2. Counted' /\ OutcomeRecordedOnce'
    BY <1>0, <1>a, <1>1
       DEF TypeOK, Counted, CountsAgree, OutcomeRecordedOnce, StartUpload,
           BackoffEnds, ctsVars, remoteVars
  <2>3. Joined' /\ FirstFailureDecides'
    BY <1>0, <1>a, <1>1, AheadAssumption
       DEF TypeOK, Joined, FirstFailureDecides, Seen, StorageErrors, AttemptErrors,
           Retryable, StartUpload, BackoffEnds, remoteVars
  <2> QED BY <1>b, <1>c, <2>1, <2>2, <2>3 DEF PInv
<1>2. CASE UploadRetried(o)
  <2>1. TypeOK'
    BY <1>0, <1>a, <1>2
       DEF TypeOK, UploadRetried, Adrift, Retryable, AttemptErrors, StorageErrors,
           ctsVars, clientVars
  <2>2. Counted' /\ OutcomeRecordedOnce'
    BY <1>0, <1>a, <1>2
       DEF TypeOK, Counted, CountsAgree, OutcomeRecordedOnce, UploadRetried, ctsVars
  <2>3. Joined' /\ FirstFailureDecides'
    BY <1>0, <1>a, <1>2, AheadAssumption
       DEF TypeOK, Joined, FirstFailureDecides, Seen, StorageErrors, AttemptErrors,
           Retryable, UploadRetried
  <2> QED BY <1>b, <1>c, <2>1, <2>2, <2>3 DEF PInv
\* What an upload's end leaves behind, before the join reads it.
<1>3. ASSUME NEW now \in [Objects -> Positions], NEW adrift \in SUBSET Objects,
             up[o] \in {"start", "sending"},
             now \in {[up EXCEPT ![o] = "stored"], [up EXCEPT ![o] = "failed"]},
             Join(now, fault', adrift),
             attempts' \in [Objects -> Nat], recorded' \in [Objects -> Nat],
             fault' \in [Objects -> StorageErrors \union {"none"}],
             uploads' = uploads, delay' = delay,
             bucket \subseteq bucket', bucket' \subseteq Objects,
             now[o] = "stored" => o \in bucket',
             \A p \in Objects \ {o} : fault'[p] = fault[p] /\ attempts'[p] = attempts[p]
                                      /\ recorded'[p] = recorded[p],
             CountsAgree(now[o], uploads[o], attempts'[o], fault'[o]),
             recorded'[o] = TimesRecorded(now[o], uploads[o])
      PROVE  PInv'
  <2>1. \A p \in Objects : CountsAgree(now[p], uploads[p], attempts'[p], fault'[p])
    BY <1>0, <1>3 DEF TypeOK, Counted
  <2>2. \A p \in Objects : recorded'[p] = TimesRecorded(now[p], uploads[p])
    BY <1>0, <1>3 DEF TypeOK, OutcomeRecordedOnce, TimesRecorded
  <2>3. \A p \in Objects : now[p] = "stored" => p \in bucket'
    BY <1>0, <1>3 DEF TypeOK, Joined
  <2>4. \A p \in Objects : now[p] # "cancelled"
    BY <1>0, <1>a, <1>3 DEF TypeOK, Joined
  <2>5. \A p \in Objects : now[p] = "failed" => fault'[p] \in StorageErrors
    BY <2>1 DEF CountsAgree, StorageErrors
  <2>6. /\ up' \in [Objects -> Positions]
        /\ loose' \subseteq Objects
        /\ \A p \in Objects :
             up'[p] = now[p] \/ (up'[p] = "cancelled"
                                 /\ now[p] \in {"start", "sending", "backoff"})
        /\ \/ /\ storage' = "running" /\ up' = now
              /\ \A p \in Objects : ~Seen(p, now)
           \/ /\ storage' = "ok" /\ up' = now
              /\ \A p \in Objects : now[p] = "stored"
           \/ /\ storage' \in StorageErrors
              /\ \E p \in Objects : Seen(p, up') /\ storage' = fault'[p]
              /\ \A p \in Objects : up'[p] \in {"stored", "failed", "cancelled"}
    BY <1>0, <1>a, <1>3, <2>4, <2>5, JoinEffect DEF TypeOK
  <2>7. TypeOK'
    BY <1>0, <1>a, <1>3, <2>6 DEF TypeOK, Positions, ctsVars, clientVars
  <2>8. Counted'
    BY <1>3, <2>1, <2>6 DEF Counted, CountsAgree
  <2>9. OutcomeRecordedOnce'
    <3>1. \A p \in Objects : recorded'[p] = TimesRecorded(up'[p], uploads[p])
      BY <2>2, <2>6 DEF TimesRecorded
    <3> QED BY <1>0, <1>a, <1>3, <3>1 DEF OutcomeRecordedOnce, TimesRecorded, ctsVars
  <2>10. Joined'
    BY <2>3, <2>4, <2>6 DEF Joined, StorageErrors, AttemptErrors, Retryable
  <2>11. FirstFailureDecides'
    BY <2>6 DEF FirstFailureDecides, Seen, StorageErrors, AttemptErrors, Retryable
  <2> QED BY <1>b, <1>c, <2>7, <2>8, <2>9, <2>10, <2>11 DEF PInv
<1>4. CASE UploadOk(o)
  <2> DEFINE now == [up EXCEPT ![o] = "stored"]
  <2>1. CountsAgree(now[o], uploads[o], attempts'[o], fault'[o])
    BY <1>0, <1>4 DEF UploadOk, TypeOK, Counted, CountsAgree
  <2>2. recorded'[o] = TimesRecorded(now[o], uploads[o])
    BY <1>0, <1>4 DEF UploadOk, TypeOK, OutcomeRecordedOnce, TimesRecorded
  <2>3. now \in [Objects -> Positions] /\ now[o] = "stored"
    BY <1>0 DEF TypeOK, Positions
  <2>4. Join(now, fault', {}) /\ up[o] = "sending"
    BY <1>4 DEF UploadOk
  <2>5. /\ attempts' = attempts /\ fault' = fault /\ delay' = delay /\ uploads' = uploads
        /\ recorded' = [recorded EXCEPT ![o] = @ + 1]
        /\ bucket' = bucket \union {o}
    BY <1>4 DEF UploadOk
  <2>6. /\ attempts' \in [Objects -> Nat] /\ recorded' \in [Objects -> Nat]
        /\ fault' \in [Objects -> StorageErrors \union {"none"}]
        /\ \A p \in Objects \ {o} : fault'[p] = fault[p] /\ attempts'[p] = attempts[p]
                                    /\ recorded'[p] = recorded[p]
    BY <1>0, <2>5 DEF TypeOK
  <2>7. /\ bucket \subseteq bucket' /\ bucket' \subseteq Objects /\ o \in bucket'
        /\ {} \in SUBSET Objects
    BY <1>0, <2>5 DEF TypeOK
  <2>8. now \in {[up EXCEPT ![o] = "stored"], [up EXCEPT ![o] = "failed"]}
    OBVIOUS
  <2> HIDE DEF now
  <2> QED
    BY <1>3, <2>1, <2>2, <2>3, <2>4, <2>5, <2>6, <2>7, <2>8
<1>5. ASSUME NEW kind \in StorageErrors, Fail(o, kind), bucket' = bucket,
             UNCHANGED <<delay, uploads>>,
             \/ /\ up[o] = "start" /\ kind = "Serialization"
                /\ UNCHANGED <<attempts, recorded>>
             \/ /\ up[o] = "sending" /\ kind \in AttemptErrors
                /\ kind \in Retryable => attempts[o] + 1 > MAX_RETRIES
                /\ attempts' = [attempts EXCEPT ![o] = @ + 1]
                /\ recorded' = [recorded EXCEPT ![o] = @ + 1]
      PROVE  PInv'
  <2> DEFINE now == [up EXCEPT ![o] = "failed"]
  <2>1. /\ fault' = [fault EXCEPT ![o] = kind]
        /\ Join(now, fault', Adrift(o, kind))
        /\ Adrift(o, kind) \in SUBSET Objects
    BY <1>5 DEF Fail, Adrift
  <2>2. now \in [Objects -> Positions] /\ now[o] = "failed"
    BY <1>0 DEF TypeOK, Positions
  <2>3. CountsAgree(now[o], uploads[o], attempts'[o], fault'[o])
    BY <1>0, <1>5, <2>1, <2>2 DEF TypeOK, Counted, CountsAgree
  <2>4. recorded'[o] = TimesRecorded(now[o], uploads[o])
    BY <1>0, <1>5, <2>2
       DEF TypeOK, Counted, CountsAgree, OutcomeRecordedOnce, TimesRecorded
  <2>5. /\ attempts' \in [Objects -> Nat] /\ recorded' \in [Objects -> Nat]
        /\ fault' \in [Objects -> StorageErrors \union {"none"}]
        /\ \A p \in Objects \ {o} : fault'[p] = fault[p] /\ attempts'[p] = attempts[p]
                                    /\ recorded'[p] = recorded[p]
    BY <1>0, <1>5, <2>1 DEF TypeOK
  <2>6. up[o] \in {"start", "sending"} /\ bucket' \subseteq Objects
    BY <1>0, <1>5 DEF TypeOK
  <2> HIDE DEF now
  <2> QED
    BY <1>3, <1>5, <2>1, <2>2, <2>3, <2>4, <2>5, <2>6 DEF now
<1>6. CASE SerializeFails(o)
  BY <1>5, <1>6 DEF SerializeFails, StorageErrors
<1>7. CASE UploadGivesUp(o)
  <2>1. PICK kind \in AttemptErrors : /\ kind \in Retryable => attempts[o] + 1 > MAX_RETRIES
                                      /\ Fail(o, kind)
    BY <1>7 DEF UploadGivesUp
  <2>2. kind \in StorageErrors
    BY DEF StorageErrors
  <2> QED BY <1>5, <1>7, <2>1, <2>2 DEF UploadGivesUp
<1> QED BY <1>1, <1>2, <1>4, <1>6, <1>7 DEF UploadStep

\* of the StoreCts loop,
LEMMA PostKeepsPInv ==
  ASSUME PInv, PostStep \/ SleepEnds
  PROVE  PInv'
<1> USE RetryAssumption
<1>0. TypeOK /\ Counted /\ OutcomeRecordedOnce /\ Joined /\ FirstFailureDecides
      /\ Countdown /\ Verdict
  BY DEF PInv
<1>a. /\ client = "waiting" /\ cts \in {"calling", "sleeping"}
      /\ UNCHANGED <<uploadVars, bucket, loose, clientVars>>
  BY DEF PostStep, PostOk, PostRetried, PostGivesUp, SleepEnds, remoteVars
<1>b. /\ delivered' \in Nat /\ cts_loose' \in Nat
      /\ delivered \in Nat /\ cts_loose \in Nat
  BY <1>0 DEF TypeOK, PostStep, PostOk, PostRetried, PostGivesUp, Unacknowledged,
              SleepEnds, remoteVars
<1>1. TypeOK'
  <2>1. CASE PostOk
    BY <1>0, <1>a, <1>b, <2>1 DEF PostOk, TypeOK, uploadVars, clientVars
  <2>2. CASE PostRetried
    BY <1>0, <1>a, <1>b, <2>2 DEF PostRetried, TypeOK, uploadVars, clientVars
  <2>3. CASE PostGivesUp
    BY <1>0, <1>a, <1>b, <2>3 DEF PostGivesUp, TypeOK, uploadVars, clientVars
  <2>4. CASE SleepEnds
    BY <1>0, <1>a, <1>b, <2>4 DEF SleepEnds, TypeOK, uploadVars, remoteVars, clientVars
  <2> QED BY <2>1, <2>2, <2>3, <2>4 DEF PostStep
<1>5. Countdown'
  <2> USE DEF Countdown, DeliveriesWithinBudget, InTheAir
  <2>0. /\ retries_left \in Nat /\ CTS_RETRIES \in Nat /\ posts \in Nat
        /\ client' = client
    BY <1>0, <1>a DEF TypeOK, clientVars
  <2>1. CASE PostOk
    BY <1>0, <1>a, <1>b, <2>0, <2>1 DEF PostOk
  <2>2. CASE PostRetried
    <3>1. cts_loose' <= cts_loose + 1 /\ delivered' = delivered
      BY <1>b, <2>2 DEF PostRetried, Unacknowledged
    <3>2. /\ cts = "calling" /\ posts' = posts
          /\ cts' = "sleeping" /\ retries_left' = retries_left - 1
      BY <2>2 DEF PostRetried
    <3>3. delivered + cts_loose + 1 <= CTS_RETRIES - retries_left + 1
      BY <1>0, <1>a, <3>2
    <3>4. /\ delivered + cts_loose' + 0 <= CTS_RETRIES - (retries_left - 1) + 0
          /\ delivered + cts_loose' + 0 <= CTS_RETRIES - retries_left + 1
      BY <1>b, <2>0, <3>1, <3>3, OneMoreFits
    <3>5. DeliveriesWithinBudget'
      BY <3>1, <3>2, <3>4
    <3>6. posts' + retries_left' = CTS_RETRIES
      BY <1>0, <2>0, <3>2
    <3> QED BY <3>2, <3>5, <3>6
  <2>3. CASE PostGivesUp
    <3>1. cts_loose' <= cts_loose + 1 /\ delivered' = delivered
      BY <1>b, <2>3 DEF PostGivesUp, Unacknowledged
    <3>2. /\ cts = "calling" /\ posts' = posts
          /\ cts' = "error" /\ retries_left' = retries_left /\ retries_left = 0
      BY <2>3 DEF PostGivesUp
    <3>3. delivered + cts_loose + 1 <= CTS_RETRIES - retries_left + 1
      BY <1>0, <1>a, <3>2
    <3>4. /\ delivered + cts_loose' + 0 <= CTS_RETRIES - (retries_left - 1) + 0
          /\ delivered + cts_loose' + 0 <= CTS_RETRIES - retries_left + 1
      BY <1>b, <2>0, <3>1, <3>3, OneMoreFits
    <3>5. DeliveriesWithinBudget'
      BY <3>1, <3>2, <3>4
    <3>6. posts' + retries_left' = CTS_RETRIES + 1
      BY <1>0, <2>0, <3>2
    <3> QED BY <3>2, <3>5, <3>6
  <2>4. CASE SleepEnds
    BY <1>0, <1>a, <1>b, <2>0, <2>4 DEF SleepEnds, remoteVars
  <2> QED BY <2>1, <2>2, <2>3, <2>4 DEF PostStep
<1>2. Counted' /\ Joined' /\ FirstFailureDecides'
  BY <1>0, <1>a DEF Counted, Joined, FirstFailureDecides, Seen, uploadVars
<1>3. OutcomeRecordedOnce'
  <2>1. cts_recorded = 0
    BY <1>0, <1>a DEF OutcomeRecordedOnce
  <2>2. cts_recorded' = IF cts' \in {"ok", "error"} THEN 1 ELSE 0
    <3>1. CASE PostOk
      BY <2>1, <3>1 DEF PostOk
    <3>2. CASE PostRetried
      BY <2>1, <3>2 DEF PostRetried
    <3>3. CASE PostGivesUp
      BY <2>1, <3>3 DEF PostGivesUp
    <3>4. CASE SleepEnds
      BY <2>1, <3>4 DEF SleepEnds
    <3> QED BY <3>1, <3>2, <3>3, <3>4 DEF PostStep
  <2> QED BY <1>0, <1>a, <2>2 DEF OutcomeRecordedOnce, uploadVars
<1>4. Verdict'
  BY <1>0, <1>a DEF Verdict, clientVars
<1> QED BY <1>1, <1>2, <1>3, <1>4, <1>5 DEF PInv

\* of the request itself.
LEMMA RequestKeepsPInv ==
  ASSUME PInv, Answer \/ Disconnect
  PROVE  PInv'
<1>0. TypeOK /\ Counted /\ OutcomeRecordedOnce /\ Joined /\ FirstFailureDecides
      /\ Countdown /\ Verdict
  BY DEF PInv
<1>a. UNCHANGED <<uploadVars, ctsVars, bucket, delivered>>
  BY DEF Answer, Disconnect, remoteVars
<1>1. TypeOK'
  <2>1. CASE Answer
    BY <1>0, <1>a, <2>1
       DEF Answer, TypeOK, StatusOf, uploadVars, ctsVars, remoteVars
  <2>2. CASE Disconnect
    BY <1>0, <1>a, <2>2 DEF Disconnect, TypeOK, uploadVars, ctsVars
  <2> QED BY <2>1, <2>2
<1>2. Counted' /\ Joined' /\ FirstFailureDecides' /\ OutcomeRecordedOnce'
  BY <1>0, <1>a
     DEF Counted, Joined, FirstFailureDecides, Seen, OutcomeRecordedOnce, uploadVars, ctsVars
<1>3. Countdown'
  <2>1. delivered \in Nat /\ cts_loose \in Nat
    BY <1>0 DEF TypeOK
  <2>2. CASE Answer
    BY <1>0, <1>a, <2>1, <2>2
       DEF Answer, Countdown, DeliveriesWithinBudget, InTheAir, ctsVars, remoteVars
  <2>3. CASE Disconnect
    BY <1>0, <1>a, <2>1, <2>3
       DEF Disconnect, Countdown, DeliveriesWithinBudget, InTheAir, ctsVars
  <2> QED BY <2>2, <2>3
<1>4. Verdict'
  <2>1. CASE Answer
    BY <1>0, <1>a, <2>1 DEF Answer, StatusOf, Verdict, uploadVars, ctsVars
  <2>2. CASE Disconnect
    BY <1>0, <1>a, <2>2 DEF Disconnect, Verdict, uploadVars, ctsVars
  <2> QED BY <2>1, <2>2
<1> QED BY <1>1, <1>2, <1>3, <1>4 DEF PInv

\* What lands late only adds to what the stores hold.
LEMMA LateKeepsPInv ==
  ASSUME PInv, (\E o \in Objects : LateUpload(o)) \/ LatePost \/ UNCHANGED vars
  PROVE  PInv'
<1>0. TypeOK /\ Counted /\ OutcomeRecordedOnce /\ Joined /\ FirstFailureDecides
      /\ Countdown /\ Verdict
  BY DEF PInv
<1>a. /\ UNCHANGED <<uploadVars, ctsVars, clientVars>>
      /\ bucket \subseteq bucket'
  BY DEF LateUpload, LatePost, vars, remoteVars
<1>b. /\ delivered' \in Nat /\ cts_loose' \in Nat
      /\ delivered' >= delivered
      /\ delivered' + cts_loose' = delivered + cts_loose
  <2>1. delivered \in Nat /\ cts_loose \in Nat
    BY <1>0 DEF TypeOK
  <2> QED BY <2>1 DEF LateUpload, LatePost, vars, remoteVars
<1>1. TypeOK'
  BY <1>0, <1>a, <1>b
     DEF LateUpload, LatePost, TypeOK, uploadVars, ctsVars, clientVars, vars, remoteVars
<1>2. Counted' /\ Joined' /\ FirstFailureDecides' /\ OutcomeRecordedOnce'
  BY <1>0, <1>a
     DEF Counted, Joined, FirstFailureDecides, Seen, OutcomeRecordedOnce, uploadVars, ctsVars
<1>3. Countdown'
  <2>1. /\ delivered \in Nat /\ cts_loose \in Nat
        /\ retries_left \in Nat /\ CTS_RETRIES \in Nat
    BY <1>0, RetryAssumption DEF TypeOK
  <2>2. UNCHANGED <<cts, retries_left, posts, client>>
    BY <1>a DEF ctsVars, clientVars
  <2>3. DeliveriesWithinBudget'
    BY <1>0, <1>b, <2>1, <2>2 DEF Countdown, DeliveriesWithinBudget, InTheAir
  <2> QED BY <1>0, <1>b, <2>1, <2>2, <2>3 DEF Countdown
<1>4. Verdict'
  BY <1>0, <1>a DEF Verdict, uploadVars, ctsVars, clientVars
<1> QED BY <1>1, <1>2, <1>3, <1>4 DEF PInv

LEMMA PInvNext == PInv /\ [Next]_vars => PInv'
BY UploadKeepsPInv, PostKeepsPInv, RequestKeepsPInv, LateKeepsPInv DEF Next, Over

LEMMA PInvariant == Spec => []PInv
BY PInvInit, PInvNext, PTL DEF Spec

-----------------------------------------------------------------------------

\* Every variable keeps its type: the StoreCts countdown never goes below zero
\* (the u32 of store_cts_internally_retryable) and no status is made up.
THEOREM PersistTypeCorrect == Spec => []TypeOK
BY PInvariant, PTL DEF PInv

\* For every batch and every budget, a client told 200 finds every ciphertext
\* and the proof in the bucket and the batch at ct-server (persist_cts).
THEOREM SuccessMeansStored == Spec => []SuccessIsDurable
<1>1. PInv => SuccessIsDurable
  BY DEF PInv, TypeOK, Verdict, Joined, Countdown, SuccessIsDurable
<1> QED BY <1>1, PInvariant, PTL

\* Both retry loops make all of their attempts before they give up on an error
\* that may pass, and never one more (retry_operation and
\* store_cts_internally_retryable).
THEOREM BudgetIsExact == Spec => []RetryBudgetIsSpent
<1>1. ASSUME PInv PROVE RetryBudgetIsSpent
  <2>1. TypeOK /\ Counted /\ Countdown
    BY <1>1 DEF PInv
  <2>2. posts <= CTS_RETRIES + 1 /\ (cts = "error" => posts = CTS_RETRIES + 1)
    BY <2>1, RetryAssumption DEF TypeOK, Countdown
  <2>3. \A o \in Objects :
          /\ uploads[o] <= MAX_RETRIES + 1
          /\ up[o] = "failed" /\ fault[o] \in Retryable => uploads[o] = MAX_RETRIES + 1
    BY <2>1 DEF TypeOK, Counted, CountsAgree, Retryable
  <2> QED BY <2>2, <2>3 DEF RetryBudgetIsSpent
<1> QED BY <1>1, PInvariant, PTL

\* For every number of uploads, the first to fail for good decides the result
\* and leaves none of the others running (try_join_all).
THEOREM OneFailureDecides == Spec => []FirstFailureDecides
BY PInvariant, PTL DEF PInv

\* Each operation that spends its attempts is counted once
\* (record_persist_outcome, record_store_cts_outcome).
THEOREM OutcomesCountedOnce == Spec => []OutcomeRecordedOnce
BY PInvariant, PTL DEF PInv

\* For every budget, what ct-server processes of one batch, late and repeated
\* deliveries included, stays within the POSTs the countdown allowed so far
\* (store_cts_internally_retryable).
THEOREM RepeatsAreBounded == Spec => []DeliveriesWithinBudget
BY PInvariant, PTL DEF PInv, Countdown

-----------------------------------------------------------------------------
(* The backoff.                                                            *)

\* 2^(n+1) counts the subsets of 1..n+1: those without n+1 and those with it.
LEMMA PowerStep ==
  ASSUME NEW n \in Nat
  PROVE  2^n \in Nat \ {0} /\ 2^(n + 1) = 2 * 2^n
<1> DEFINE Without == SUBSET (1..n)
           With == {A \in SUBSET (1..n + 1) : n + 1 \in A}
<1>1. IsFiniteSet(Without) /\ Cardinality(Without) = 2^n
  <2>1. IsFiniteSet(1..n) /\ Cardinality(1..n) = n
    BY FS_Interval
  <2> QED
    BY <2>1, FS_SUBSET
<1>2. Cardinality(SUBSET (1..n + 1)) = 2^(n + 1)
  <2>1. IsFiniteSet(1..n + 1) /\ Cardinality(1..n + 1) = n + 1
    BY FS_Interval
  <2> QED
    BY <2>1, FS_SUBSET
<1>3. SUBSET (1..n + 1) = Without \union With /\ Without \intersect With = {}
  <2>1. 1..n + 1 = (1..n) \union {n + 1} /\ n + 1 \notin 1..n
    OBVIOUS
  <2> QED
    BY <2>1
<1>4. IsFiniteSet(With) /\ Cardinality(With) = Cardinality(Without)
  <2> DEFINE f == [A \in Without |-> A \union {n + 1}]
  <2>1. f \in [Without -> With]
    OBVIOUS
  <2>2. \A A, B \in Without : f[A] = f[B] => A = B
    <3> SUFFICES ASSUME NEW A \in Without, NEW B \in Without,
                        A \union {n + 1} = B \union {n + 1}
                 PROVE  A = B
      OBVIOUS
    <3>1. n + 1 \notin A /\ n + 1 \notin B
      OBVIOUS
    <3> QED
      BY <3>1
  <2>3. \A C \in With : \E A \in Without : f[A] = C
    <3> SUFFICES ASSUME NEW C \in With PROVE \E A \in Without : f[A] = C
      OBVIOUS
    <3>1. C \ {n + 1} \in Without
      OBVIOUS
    <3>2. f[C \ {n + 1}] = C
      BY <3>1
    <3> QED
      BY <3>1, <3>2
  <2>4. f \in Bijection(Without, With)
    BY <2>1, <2>2, <2>3 DEF Bijection, Injection, Surjection, IsInjective
  <2> QED
    BY <2>4, <1>1, FS_Bijection DEF ExistsBijection
<1> HIDE DEF Without, With
<1>5. Cardinality(Without \union With) = Cardinality(Without) + Cardinality(With)
  <2>1. Cardinality(Without \union With)
          = Cardinality(Without) + Cardinality(With) - Cardinality({})
    BY <1>1, <1>3, <1>4, FS_Union
  <2> QED
    BY <2>1, <1>1, <1>4, FS_EmptySet, FS_CardinalityType
<1>6. Cardinality(Without) \in Nat \ {0}
  <2>1. {} \in Without
    BY DEF Without
  <2> QED
    BY <1>1, <2>1, FS_EmptySet, FS_CardinalityType
<1> QED
  BY <1>1, <1>2, <1>3, <1>4, <1>5, <1>6

Capped(d) == IF d <= MAX_DELAY THEN d ELSE MAX_DELAY

\* The library's minimum of a delay and the cap is the cap cutting it off.
LEMMA MinIsCapped ==
  ASSUME NEW d \in Nat
  PROVE  Min({d, MAX_DELAY}) = Capped(d)
<1>1. \E x \in {d, MAX_DELAY} : \A y \in {d, MAX_DELAY} : x <= y
  BY RetryAssumption
<1>2. /\ Min({d, MAX_DELAY}) \in {d, MAX_DELAY}
      /\ \A y \in {d, MAX_DELAY} : Min({d, MAX_DELAY}) <= y
  BY <1>1 DEF Min
<1> QED
  BY <1>2, RetryAssumption DEF Capped

\* The delay of the sleep that follows n attempts.
Backoff(n) == IF n = 0 THEN INITIAL_DELAY ELSE Capped(INITIAL_DELAY * 2^(n - 1))

\* Doubling what was capped, and capping it, is capping what was doubled.
LEMMA BackoffStep ==
  ASSUME NEW n \in Nat
  PROVE  /\ Backoff(1) = INITIAL_DELAY
         /\ n > 0 => Backoff(n + 1) = IF Backoff(n) * 2 < MAX_DELAY
                                        THEN Backoff(n) * 2 ELSE MAX_DELAY
<1> USE RetryAssumption
<1>1. Backoff(1) = INITIAL_DELAY
  <2>1. 2^0 = 1
    <3>1. IsFiniteSet({}) /\ Cardinality({}) = 0
      BY FS_EmptySet
    <3>2. Cardinality(SUBSET {}) = 2^0
      BY <3>1, FS_SUBSET
    <3>3. SUBSET {} = {{}}
      OBVIOUS
    <3> QED
      BY <3>2, <3>3, FS_Singleton
  <2> QED
    BY <2>1 DEF Backoff, Capped
<1>2. ASSUME n > 0
      PROVE  Backoff(n + 1) = IF Backoff(n) * 2 < MAX_DELAY
                                THEN Backoff(n) * 2 ELSE MAX_DELAY
  <2> DEFINE p == 2^(n - 1)
             d == INITIAL_DELAY * p
  <2>1. p \in Nat /\ 2^n = 2 * p
    <3>1. n - 1 \in Nat /\ (n - 1) + 1 = n
      BY <1>2
    <3> QED
      BY <3>1, PowerStep
  <2> HIDE DEF p
  <2>2. d \in Nat /\ INITIAL_DELAY * (2 * p) = 2 * d
    BY <2>1
  <2>3. Backoff(n) = Capped(d) /\ Backoff(n + 1) = Capped(INITIAL_DELAY * 2^n)
    BY <1>2 DEF Backoff, p
  <2> HIDE DEF d
  <2>4. Backoff(n + 1) = Capped(2 * d)
    BY <2>1, <2>2, <2>3
  <2> QED
    BY <2>2, <2>3, <2>4 DEF Capped
<1> QED
  BY <1>1, <1>2

\* Every upload's delay is the one its attempts call for.
DelaysFit == \A o \in Objects : delay[o] = Backoff(uploads[o])

\* Every step keeps the delay a function of the attempts.
LEMMA DelaysFitNext == PInv /\ DelaysFit /\ [Next]_vars => DelaysFit'
<1> SUFFICES ASSUME PInv, DelaysFit, [Next]_vars PROVE DelaysFit'
  OBVIOUS
<1> USE DEF DelaysFit
<1>0. TypeOK /\ Counted
  BY DEF PInv
<1>1. CASE UNCHANGED <<delay, uploads>>
  BY <1>1
<1>2. ASSUME NEW o \in Objects, StartUpload(o) PROVE DelaysFit'
  <2>1. delay' = delay /\ uploads' = [uploads EXCEPT ![o] = uploads[o] + 1] /\ uploads[o] = 0
    BY <1>0, <1>2 DEF StartUpload, Counted, CountsAgree
  <2>2. Backoff(0) = Backoff(1)
    BY BackoffStep DEF Backoff
  <2> QED
    BY <1>0, <2>1, <2>2 DEF TypeOK
<1>3. ASSUME NEW o \in Objects, BackoffEnds(o) PROVE DelaysFit'
  <2>1. uploads[o] \in Nat /\ uploads[o] > 0
    BY <1>0, <1>3 DEF BackoffEnds, TypeOK, Counted, CountsAgree
  <2>2. /\ uploads' = [uploads EXCEPT ![o] = uploads[o] + 1]
        /\ delay' = [delay EXCEPT ![o] = IF delay[o] * 2 < MAX_DELAY
                                           THEN delay[o] * 2 ELSE MAX_DELAY]
    BY <1>3 DEF BackoffEnds
  <2>3. delay'[o] = Backoff(uploads[o] + 1)
    BY <1>0, <2>1, <2>2, BackoffStep DEF TypeOK
  <2> QED
    BY <1>0, <2>2, <2>3 DEF TypeOK
<1>4. \/ UNCHANGED <<delay, uploads>>
      \/ \E o \in Objects : StartUpload(o) \/ BackoffEnds(o)
  <2>1. ASSUME NEW o \in Objects, UploadStep(o)
        PROVE  StartUpload(o) \/ BackoffEnds(o) \/ UNCHANGED <<delay, uploads>>
    BY <2>1 DEF UploadStep, SerializeFails, UploadOk, UploadRetried, UploadGivesUp
  <2>2. CASE (\E o \in Objects : LateUpload(o)) \/ LatePost \/ PostStep \/ SleepEnds
             \/ Answer \/ Disconnect \/ Over \/ UNCHANGED vars
    BY <2>2 DEF LateUpload, LatePost, PostStep, PostOk, PostRetried, PostGivesUp,
                SleepEnds, Answer, Disconnect, Over, vars, uploadVars
  <2> QED
    BY <2>1, <2>2 DEF Next
<1> QED
  BY <1>1, <1>2, <1>3, <1>4

\* For every pair of delays the configuration lets through and every budget, the
\* backoff of upload_with_retry is the initial delay doubled once per sleep and
\* cut at the cap.
THEOREM BackoffIsExponential == Spec => []BackoffDoublesToCap
<1>1. Init => DelaysFit
  BY DEF Init, DelaysFit, Backoff
<1>2. PInv /\ DelaysFit => BackoffDoublesToCap
  <2> SUFFICES ASSUME PInv, DelaysFit, NEW o \in Objects, uploads[o] > 0
               PROVE  delay[o] = Min({INITIAL_DELAY * 2^(uploads[o] - 1), MAX_DELAY})
    BY DEF BackoffDoublesToCap
  <2>1. uploads[o] \in Nat /\ uploads[o] - 1 \in Nat
    BY DEF PInv, TypeOK
  <2>2. 2^(uploads[o] - 1) \in Nat
    BY <2>1, PowerStep
  <2>3. INITIAL_DELAY * 2^(uploads[o] - 1) \in Nat
    BY <2>2, RetryAssumption
  <2>4. delay[o] = Capped(INITIAL_DELAY * 2^(uploads[o] - 1))
    BY <2>1 DEF DelaysFit, Backoff
  <2> QED
    BY <2>3, <2>4, MinIsCapped
<1> QED
  BY <1>1, <1>2, PInvariant, DelaysFitNext, PTL DEF Spec

-----------------------------------------------------------------------------
(* Persist implements the persist step of VerifyBatch.                     *)

\* How far the call is, is all the endpoint sees of it.
LEMMA UnseenStep ==
  ASSUME UNCHANGED <<storage, cts, clientVars>>
  PROVE  UNCHANGED Endpoint!vars
BY DEF Endpoint!vars, Handler, Reply, ExternalBranch, StoreCtsBranch, clientVars

\* An upload that ends may end the external branch.
LEMMA UploadRefines ==
  ASSUME TypeOK, NEW o \in Objects, UploadStep(o)
  PROVE  [Endpoint!Next]_(Endpoint!vars)
<1>1. client = "waiting" /\ storage = "running" /\ UNCHANGED <<ctsVars, clientVars>>
  BY DEF UploadStep, StartUpload, SerializeFails, UploadOk, UploadRetried,
         UploadGivesUp, BackoffEnds, Uploading
<1>2. CASE storage' = storage
  BY <1>1, <1>2, UnseenStep DEF ctsVars
<1>3. CASE storage' # storage
  <2>1. Handler = "persisting" /\ ExternalBranch = "pending"
    BY <1>1 DEF Handler, ExternalBranch
  <2>2. ExternalBranch' \in {"ok", "failed"}
    BY <1>1, <1>3 DEF ExternalBranch
  <2>3. UNCHANGED <<Handler, Reply, StoreCtsBranch, client>>
    BY <1>1 DEF Handler, Reply, StoreCtsBranch, ctsVars, clientVars
  <2>4. Endpoint!FinishExternal(it)
    BY <2>1, <2>2, <2>3 DEF Endpoint!FinishExternal
  <2> QED
    BY <2>4 DEF Endpoint!Next
<1> QED
  BY <1>2, <1>3

\* A POST may end the StoreCts branch; a retry does not.
LEMMA PostRefines ==
  ASSUME TypeOK, PostStep \/ SleepEnds
  PROVE  [Endpoint!Next]_(Endpoint!vars)
<1>1. /\ client = "waiting" /\ cts \in {"calling", "sleeping"}
      /\ UNCHANGED <<storage, clientVars>>
      /\ cts' \in {"calling", "sleeping", "ok", "error"}
  BY DEF PostStep, PostOk, PostRetried, PostGivesUp, SleepEnds, uploadVars
<1>2. Handler = "persisting" /\ StoreCtsBranch = "pending"
  BY <1>1 DEF Handler, StoreCtsBranch
<1>3. UNCHANGED <<Handler, Reply, ExternalBranch, client>>
  BY <1>1 DEF Handler, Reply, ExternalBranch, clientVars
<1>4. CASE cts' \in {"ok", "error"}
  <2>1. StoreCtsBranch' \in {"ok", "failed"}
    BY <1>4 DEF StoreCtsBranch
  <2>2. Endpoint!FinishStoreCts(it)
    BY <1>2, <1>3, <2>1 DEF Endpoint!FinishStoreCts
  <2> QED
    BY <2>2 DEF Endpoint!Next
<1>5. CASE cts' \in {"calling", "sleeping"}
  <2>1. UNCHANGED StoreCtsBranch
    BY <1>1, <1>5 DEF StoreCtsBranch
  <2> QED
    BY <1>3, <2>1 DEF Endpoint!vars
<1> QED
  BY <1>1, <1>4, <1>5

\* The answer is the endpoint's, for both branches and with its verdict.
LEMMA AnswerRefines ==
  ASSUME PInv, Answer
  PROVE  Endpoint!FinishPersist(it)
<1>1. /\ client = "waiting" /\ storage # "running" /\ cts \in {"ok", "error"}
      /\ client' = "answered"
      /\ status' = IF storage # "ok" THEN StatusOf(storage)
                   ELSE IF cts = "error" THEN 500 ELSE 200
      /\ UNCHANGED <<storage, cts>>
  BY DEF Answer, uploadVars, ctsVars
<1>2. status' # 0 /\ (status' = 200 <=> storage = "ok" /\ cts = "ok")
  BY <1>1 DEF StatusOf
<1>3. Reply' = IF ExternalBranch = "ok" /\ StoreCtsBranch = "ok"
                 THEN "Success" ELSE "PersistFailed"
  BY <1>1, <1>2 DEF Reply, ExternalBranch, StoreCtsBranch
<1>4. /\ Handler = "persisting" /\ Handler' = "answered"
      /\ "pending" \notin {ExternalBranch, StoreCtsBranch}
      /\ UNCHANGED <<ExternalBranch, StoreCtsBranch>>
  BY <1>1 DEF Handler, ExternalBranch, StoreCtsBranch
<1> DEFINE what == IF ExternalBranch = "ok" /\ StoreCtsBranch = "ok"
                     THEN "Success" ELSE "PersistFailed"
<1>5. Reply' = what
  BY <1>3
<1> HIDE DEF what
<1>6. Endpoint!Answer(it, what)
  <2>1. [r \in {it} |-> Handler]' = [[r \in {it} |-> Handler] EXCEPT ![it] = "answered"]
    BY <1>4
  <2>2. [r \in {it} |-> Reply]' = [[r \in {it} |-> Reply] EXCEPT ![it] = what]
    BY <1>5
  <2>3. (IF client = "waiting" THEN 0 ELSE 1)' = (IF client = "waiting" THEN 0 ELSE 1) + 1
    BY <1>1
  <2> QED
    BY <2>1, <2>2, <2>3 DEF Endpoint!Answer
<1>7. what = IF [r \in {it} |-> ExternalBranch][it] = "ok"
                /\ [r \in {it} |-> StoreCtsBranch][it] = "ok"
               THEN "Success" ELSE "PersistFailed"
  BY DEF what
<1> QED
  BY <1>4, <1>6, <1>7 DEF Endpoint!FinishPersist

\* A client that disconnects drops the handler, and its permit.
LEMMA DisconnectRefines ==
  ASSUME Disconnect
  PROVE  Endpoint!Disconnect(it)
<1>1. /\ client = "waiting" /\ client' = "gone"
      /\ UNCHANGED <<storage, cts, status>>
  BY DEF Disconnect, uploadVars, ctsVars
<1>2. /\ Handler = "persisting" /\ Handler' = "dropped"
      /\ UNCHANGED <<Reply, ExternalBranch, StoreCtsBranch>>
  BY <1>1 DEF Handler, Reply, ExternalBranch, StoreCtsBranch
<1> QED
  BY <1>1, <1>2 DEF Endpoint!Disconnect, Endpoint!DropLater, Endpoint!Gone

\* For every batch, every order its results are read in and every budget: each
\* step of persist_cts, its retries, its join, its answer and its end under a
\* disconnect, is a step VerifyBatch's persist step takes, or invisible to it.
THEOREM PersistRefinesStep == Spec => RefinesPersistStep
<1>1. ASSUME PInv, [Next]_vars PROVE [Endpoint!Next]_(Endpoint!vars)
  <2>1. ASSUME NEW o \in Objects, UploadStep(o) PROVE [Endpoint!Next]_(Endpoint!vars)
    BY <1>1, <2>1, UploadRefines DEF PInv
  <2>2. CASE PostStep \/ SleepEnds
    BY <1>1, <2>2, PostRefines DEF PInv
  <2>3. CASE Answer
    BY <1>1, <2>3, AnswerRefines DEF Endpoint!Next, Endpoint!HandlerStep
  <2>4. CASE Disconnect
    BY <2>4, DisconnectRefines DEF Endpoint!Next
  <2>5. CASE (\E o \in Objects : LateUpload(o)) \/ LatePost \/ Over \/ UNCHANGED vars
    BY <2>5, UnseenStep
       DEF LateUpload, LatePost, Over, vars, uploadVars, ctsVars, clientVars
  <2> QED
    BY <1>1, <2>1, <2>2, <2>3, <2>4, <2>5 DEF Next
<1> QED
  BY <1>1, PInvariant, PTL DEF Spec, RefinesPersistStep
=============================================================================
