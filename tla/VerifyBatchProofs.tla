-------------------------- MODULE VerifyBatchProofs -------------------------
(***************************************************************************)
(* Theorems about VerifyBatch for every finite set of requests and every   *)
(* pair of limits.                                                         *)
(***************************************************************************)
EXTENDS VerifyBatch, FiniteSetTheorems, SequenceTheorems, TLAPS

-----------------------------------------------------------------------------
(* Removing one element from a sequence.                                   *)

\* RemoveAt keeps the order of the others and shifts the tail down by one.
LEMMA RemoveAtProperties ==
  ASSUME NEW S, NEW s \in Seq(S), NEW i \in 1..Len(s)
  PROVE  /\ RemoveAt(s, i) \in Seq(S)
         /\ Len(RemoveAt(s, i)) = Len(s) - 1
         /\ \A j \in 1..(Len(s) - 1) :
              RemoveAt(s, i)[j] = IF j < i THEN s[j] ELSE s[j + 1]
<1> DEFINE a == SubSeq(s, 1, i - 1)
           b == SubSeq(s, i + 1, Len(s))
<1>1. Len(s) \in Nat /\ \A j \in 1..Len(s) : s[j] \in S
  BY ElementOfSeq, LenProperties
<1>2. /\ a \in Seq(S) /\ Len(a) = i - 1
      /\ \A j \in 1..(i - 1) : a[j] = s[j]
  <2>1. \A j \in 1..(i - 1) : s[j] \in S
    BY <1>1
  <2> QED BY <1>1, <2>1, SubSeqProperties
<1>3. /\ b \in Seq(S) /\ Len(b) = Len(s) - i
      /\ \A j \in 1..(Len(s) - i) : b[j] = s[j + i]
  <2>1. \A j \in (i + 1)..Len(s) : s[j] \in S
    BY <1>1
  <2> QED BY <1>1, <2>1, SubSeqProperties
<1>4. /\ a \o b \in Seq(S)
      /\ Len(a \o b) = Len(a) + Len(b)
      /\ \A j \in 1..(Len(a) + Len(b)) :
           (a \o b)[j] = IF j <= Len(a) THEN a[j] ELSE b[j - Len(a)]
  BY <1>2, <1>3, ConcatProperties
<1>5. RemoveAt(s, i) = a \o b
  BY DEF RemoveAt
<1> HIDE DEF a, b
<1>6. ASSUME NEW j \in 1..(Len(s) - 1)
      PROVE  (a \o b)[j] = IF j < i THEN s[j] ELSE s[j + 1]
  <2>1. CASE j < i
    BY <1>1, <1>2, <1>3, <1>4, <2>1
  <2>2. CASE ~(j < i)
    <3>1. j - (i - 1) \in 1..(Len(s) - i)
      BY <1>1, <2>2
    <3>2. b[j - (i - 1)] = s[(j - (i - 1)) + i]
      BY <1>3, <3>1
    <3>3. (j - (i - 1)) + i = j + 1
      BY <1>1
    <3> QED BY <1>1, <1>2, <1>3, <1>4, <2>2, <3>2, <3>3
  <2> QED BY <2>1, <2>2
<1> QED BY <1>1, <1>2, <1>3, <1>4, <1>5, <1>6

-----------------------------------------------------------------------------
(* Types.                                                                  *)

\* TypeOK without the upper bounds of the two counters, which follow from
\* conservation.
TypeInv ==
  /\ admit_free \in Nat
  /\ verify_free \in Nat
  /\ waiters \in Seq(Requests)
  /\ pc \in [Requests -> {"new"} \union Holding \union Finished]
  /\ task \in [Requests -> {"none", "done"} \union OnCpu]
  /\ result \in [Requests -> Results]
  /\ in_flight \in Int
  /\ external \in [Requests -> Branch]
  /\ store_cts \in [Requests -> Branch]
  /\ reply \in [Requests -> Replies]

\* Handing a permit on keeps the types, whatever the control it starts from.
LEMMA ReleaseVerifyTypes ==
  ASSUME NEW control \in [Requests -> {"new"} \union Holding \union Finished],
         TypeInv, ReleaseVerify(control, waiters)
  PROVE  /\ verify_free' \in Nat
         /\ waiters' \in Seq(Requests)
         /\ pc' \in [Requests -> {"new"} \union Holding \union Finished]
<1>1. CASE waiters = <<>>
  BY <1>1 DEF ReleaseVerify, TypeInv
<1>2. CASE waiters # <<>>
  <2>1. Head(waiters) \in Requests /\ Tail(waiters) \in Seq(Requests)
    BY <1>2, HeadTailProperties DEF TypeInv
  <2> QED BY <1>2, <2>1 DEF ReleaseVerify, TypeInv, Holding, Awaiting
<1> QED BY <1>1, <1>2

LEMMA TypeInvInit == Init => TypeInv
BY LimitsAssumption, EmptySeq
   DEF Init, TypeInv, Holding, Awaiting, Finished, OnCpu, Results, Branch, Replies

LEMMA TypeInvNext == TypeInv /\ [Next]_vars => TypeInv'
<1> SUFFICES ASSUME TypeInv, [Next]_vars
             PROVE  TypeInv'
  OBVIOUS
<1> USE DEF TypeInv, Holding, Awaiting, Finished, OnCpu, Results, Branch, Replies
<1>1. ASSUME NEW r \in Requests, Admit(r) PROVE TypeInv'
  BY <1>1 DEF Admit
<1>2. ASSUME NEW r \in Requests, Shed(r) PROVE TypeInv'
  BY <1>2 DEF Shed
<1>3. ASSUME NEW r \in Requests, RejectContract(r) PROVE TypeInv'
  BY <1>3 DEF RejectContract, Answer
<1>4. ASSUME NEW r \in Requests, AcquireNow(r) PROVE TypeInv'
  BY <1>4 DEF AcquireNow
<1>5. ASSUME NEW r \in Requests, Wait(r) PROVE TypeInv'
  <2>1. waiters' \in Seq(Requests)
    BY <1>5, AppendProperties DEF Wait
  <2> QED BY <1>5, <2>1 DEF Wait
<1>6. ASSUME NEW r \in Requests, Resume(r) PROVE TypeInv'
  BY <1>6 DEF Resume
<1>7. ASSUME NEW r \in Requests, StartTask(r) PROVE TypeInv'
  BY <1>7 DEF StartTask
<1>8. ASSUME NEW r \in Requests, FinishRun(r) PROVE TypeInv'
  BY <1>8 DEF FinishRun
<1>9. ASSUME NEW r \in Requests, ReleaseCpu(r) PROVE TypeInv'
  <2>1. /\ verify_free' \in Nat
        /\ waiters' \in Seq(Requests)
        /\ pc' \in [Requests -> {"new"} \union Holding \union Finished]
    BY <1>9, ReleaseVerifyTypes DEF ReleaseCpu
  <2> QED BY <1>9, <2>1 DEF ReleaseCpu
<1>10. ASSUME NEW r \in Requests, BeginPersist(r) PROVE TypeInv'
  BY <1>10 DEF BeginPersist
<1>11. ASSUME NEW r \in Requests, JoinFailed(r) PROVE TypeInv'
  BY <1>11 DEF JoinFailed, Answer
<1>12. ASSUME NEW r \in Requests, FinishExternal(r) PROVE TypeInv'
  BY <1>12 DEF FinishExternal
<1>13. ASSUME NEW r \in Requests, FinishStoreCts(r) PROVE TypeInv'
  BY <1>13 DEF FinishStoreCts
<1>14. ASSUME NEW r \in Requests, FinishPersist(r) PROVE TypeInv'
  BY <1>14 DEF FinishPersist, Answer
<1>15. ASSUME NEW r \in Requests, Disconnect(r) PROVE TypeInv'
  <2>1. /\ verify_free' \in Nat
        /\ waiters' \in Seq(Requests)
        /\ pc' \in [Requests -> {"new"} \union Holding \union Finished]
    <3>1. CASE DropWaiter(r)
      BY <3>1, RemoveAtProperties DEF DropWaiter, Gone
    <3>2. CASE DropGranted(r)
      BY <3>2, ReleaseVerifyTypes DEF DropGranted, Gone
    <3>3. CASE DropLater(r)
      BY <3>3 DEF DropLater, Gone
    <3> QED BY <1>15, <3>1, <3>2, <3>3 DEF Disconnect
  <2> QED BY <1>15, <2>1 DEF Disconnect
<1>16. CASE UNCHANGED vars
  BY <1>16 DEF vars
<1> QED
  BY <1>1, <1>2, <1>3, <1>4, <1>5, <1>6, <1>7, <1>8, <1>9, <1>10, <1>11,
     <1>12, <1>13, <1>14, <1>15, <1>16
     DEF Next, HandlerStep, TaskStep, Idle

-----------------------------------------------------------------------------
(* The queue of the CPU gate.                                              *)

\* The head of the queue is a handler that waits.
LEMMA HeadWaits ==
  ASSUME TypeInv, QueueIsWaiters, waiters # <<>>
  PROVE  /\ Head(waiters) \in Requests
         /\ pc[Head(waiters)] = "waiting"
         /\ Head(waiters) = waiters[1]
         /\ 1 \in 1..Len(waiters)
<1>1. Len(waiters) \in Nat \ {0}
  BY EmptySeq DEF TypeInv
<1>2. Head(waiters) = waiters[1] /\ Head(waiters) \in Requests
  BY <1>1, HeadTailProperties DEF TypeInv
<1> QED BY <1>1, <1>2 DEF QueueIsWaiters

\* A step that leaves the queue and the set of waiting handlers alone.
LEMMA QueueFrame ==
  ASSUME TypeInv, QueueIsWaiters, waiters' = waiters,
         \A r \in Requests : pc'[r] = "waiting" <=> pc[r] = "waiting"
  PROVE  QueueIsWaiters'
<1>1. \A i \in 1..Len(waiters) : waiters[i] \in Requests
  BY ElementOfSeq DEF TypeInv
<1> QED BY <1>1 DEF QueueIsWaiters

\* Handing a permit on takes the head out of the queue and out of "waiting".
LEMMA QueueRelease ==
  ASSUME TypeInv, QueueIsWaiters,
         NEW control \in [Requests -> {"new"} \union Holding \union Finished],
         \A r \in Requests : control[r] = "waiting" <=> pc[r] = "waiting",
         ReleaseVerify(control, waiters)
  PROVE  QueueIsWaiters'
<1>1. CASE waiters = <<>>
  BY <1>1, QueueFrame DEF ReleaseVerify
<1>2. CASE waiters # <<>>
  <2> DEFINE h == Head(waiters)
  <2>1. /\ h \in Requests /\ pc[h] = "waiting" /\ h = waiters[1]
        /\ 1 \in 1..Len(waiters)
    BY <1>2, HeadWaits
  <2>2. /\ waiters' \in Seq(Requests)
        /\ Len(waiters') = Len(waiters) - 1
        /\ \A i \in 1..Len(waiters') : waiters'[i] = waiters[i + 1]
    <3>1. waiters' = Tail(waiters)
      BY <1>2 DEF ReleaseVerify
    <3>2. waiters \in Seq(Requests)
      BY DEF TypeInv
    <3>3. /\ Tail(waiters) \in Seq(Requests)
          /\ Len(Tail(waiters)) = Len(waiters) - 1
          /\ \A i \in 1..Len(Tail(waiters)) : Tail(waiters)[i] = waiters[i + 1]
      BY <1>2, <3>2, HeadTailProperties
    <3> QED BY <3>1, <3>3
  <2>3. pc' = [control EXCEPT ![h] = "granted"]
    BY <1>2 DEF ReleaseVerify
  <2>4. Len(waiters) \in Nat
    BY LenProperties DEF TypeInv
  <2>5. \A i \in 1..Len(waiters) : waiters[i] \in Requests
    BY ElementOfSeq DEF TypeInv
  <2> HIDE DEF h
  <2>6. \A i \in 1..Len(waiters') : pc'[waiters'[i]] = "waiting"
    <3> SUFFICES ASSUME NEW i \in 1..Len(waiters')
                 PROVE  pc'[waiters'[i]] = "waiting"
      OBVIOUS
    <3>1. i + 1 \in 1..Len(waiters) /\ waiters'[i] = waiters[i + 1]
      BY <2>2, <2>4
    <3>2. waiters[i + 1] # h
      BY <2>1, <3>1, <2>2, <2>4 DEF QueueIsWaiters
    <3> QED BY <2>3, <2>5, <3>1, <3>2 DEF QueueIsWaiters
  <2>7. ASSUME NEW r \in Requests, pc'[r] = "waiting"
        PROVE  \E i \in 1..Len(waiters') : waiters'[i] = r
    <3>1. r # h /\ pc[r] = "waiting"
      BY <2>1, <2>3, <2>7
    <3>2. PICK k \in 1..Len(waiters) : waiters[k] = r
      BY <3>1 DEF QueueIsWaiters
    <3>3. k # 1
      BY <2>1, <3>1, <3>2
    <3>4. k - 1 \in 1..Len(waiters') /\ (k - 1) + 1 = k
      BY <2>2, <2>4, <3>3
    <3> QED BY <2>2, <3>2, <3>4
  <2>8. \A i, j \in 1..Len(waiters') : waiters'[i] = waiters'[j] => i = j
    <3> SUFFICES ASSUME NEW i \in 1..Len(waiters'), NEW j \in 1..Len(waiters'),
                        waiters'[i] = waiters'[j]
                 PROVE  i = j
      OBVIOUS
    <3>1. i + 1 \in 1..Len(waiters) /\ j + 1 \in 1..Len(waiters)
      BY <2>2, <2>4
    <3>2. i + 1 = j + 1
      BY <2>2, <3>1 DEF QueueIsWaiters
    <3> QED BY <2>2, <2>4, <3>2
  <2> QED BY <2>6, <2>7, <2>8 DEF QueueIsWaiters
<1> QED BY <1>1, <1>2

\* A handler that starts to wait goes to the end of the queue.
LEMMA QueueWait ==
  ASSUME TypeInv, QueueIsWaiters, NEW r \in Requests, Wait(r)
  PROVE  QueueIsWaiters'
<1>1. /\ Len(waiters) \in Nat
      /\ \A i \in 1..Len(waiters) : waiters[i] \in Requests
  BY ElementOfSeq, LenProperties DEF TypeInv
<1>2. /\ Len(waiters') = Len(waiters) + 1
      /\ \A i \in 1..Len(waiters) : waiters'[i] = waiters[i]
      /\ waiters'[Len(waiters) + 1] = r
  BY AppendProperties DEF TypeInv, Wait
<1>3. pc' = [pc EXCEPT ![r] = "waiting"] /\ pc[r] = "admitted"
  BY DEF Wait
<1>4. \A i \in 1..Len(waiters) : waiters[i] # r
  BY <1>1, <1>3 DEF QueueIsWaiters
<1>5. \A i \in 1..Len(waiters') : pc'[waiters'[i]] = "waiting"
  <2> SUFFICES ASSUME NEW i \in 1..Len(waiters')
               PROVE  pc'[waiters'[i]] = "waiting"
    OBVIOUS
  <2>1. CASE i \in 1..Len(waiters)
    BY <1>1, <1>2, <1>3, <1>4, <2>1 DEF QueueIsWaiters, TypeInv
  <2>2. CASE i = Len(waiters) + 1
    BY <1>2, <1>3, <2>2 DEF TypeInv
  <2> QED BY <1>1, <1>2, <2>1, <2>2
<1>6. ASSUME NEW q \in Requests, pc'[q] = "waiting"
      PROVE  \E i \in 1..Len(waiters') : waiters'[i] = q
  <2>1. CASE q = r
    BY <1>1, <1>2, <2>1
  <2>2. CASE q # r
    <3>1. pc[q] = "waiting"
      BY <1>3, <1>6, <2>2 DEF TypeInv
    <3>2. PICK k \in 1..Len(waiters) : waiters[k] = q
      BY <3>1 DEF QueueIsWaiters
    <3> QED BY <1>1, <1>2, <3>2
  <2> QED BY <2>1, <2>2
<1>7. \A i, j \in 1..Len(waiters') : waiters'[i] = waiters'[j] => i = j
  <2> SUFFICES ASSUME NEW i \in 1..Len(waiters'), NEW j \in 1..Len(waiters'),
                      waiters'[i] = waiters'[j]
               PROVE  i = j
    OBVIOUS
  <2>1. CASE i \in 1..Len(waiters) /\ j \in 1..Len(waiters)
    BY <1>2, <2>1 DEF QueueIsWaiters
  <2>2. CASE ~(i \in 1..Len(waiters) /\ j \in 1..Len(waiters))
    BY <1>1, <1>2, <1>4, <2>2
  <2> QED BY <2>1, <2>2
<1> QED BY <1>5, <1>6, <1>7 DEF QueueIsWaiters

\* A handler dropped in the queue leaves it.
LEMMA QueueDrop ==
  ASSUME TypeInv, QueueIsWaiters, NEW r \in Requests, DropWaiter(r)
  PROVE  QueueIsWaiters' /\ (waiters' # <<>> => waiters # <<>>)
<1>1. /\ Len(waiters) \in Nat
      /\ \A i \in 1..Len(waiters) : waiters[i] \in Requests
  BY ElementOfSeq, LenProperties DEF TypeInv
<1>2. PICK k \in 1..Len(waiters) : waiters[k] = r /\ waiters' = RemoveAt(waiters, k)
  BY DEF DropWaiter
<1>3. /\ Len(waiters') = Len(waiters) - 1
      /\ \A j \in 1..(Len(waiters) - 1) :
           waiters'[j] = IF j < k THEN waiters[j] ELSE waiters[j + 1]
  BY <1>2, RemoveAtProperties DEF TypeInv
<1>4. pc' = [pc EXCEPT ![r] = "dropped"]
  BY DEF DropWaiter, Gone
<1> DEFINE old(j) == IF j < k THEN j ELSE j + 1
<1>5. \A j \in 1..Len(waiters') :
        /\ old(j) \in 1..Len(waiters) /\ old(j) # k
        /\ waiters'[j] = waiters[old(j)]
  BY <1>1, <1>3
<1>6. \A i, j \in 1..Len(waiters') : old(i) = old(j) => i = j
  BY <1>1, <1>3
<1>7. \A i \in 1..Len(waiters) :
        i # k => \E j \in 1..Len(waiters') : old(j) = i
  <2> SUFFICES ASSUME NEW i \in 1..Len(waiters), i # k
               PROVE  \E j \in 1..Len(waiters') : old(j) = i
    OBVIOUS
  <2>1. CASE i < k
    BY <1>1, <1>3, <2>1
  <2>2. CASE i > k
    <3>1. i - 1 \in 1..Len(waiters') /\ old(i - 1) = i
      BY <1>1, <1>3, <2>2
    <3> QED BY <3>1
  <2> QED BY <1>1, <2>1, <2>2
<1> HIDE DEF old
<1>8. \A j \in 1..Len(waiters') : pc'[waiters'[j]] = "waiting"
  <2> SUFFICES ASSUME NEW j \in 1..Len(waiters')
               PROVE  pc'[waiters'[j]] = "waiting"
    OBVIOUS
  <2>1. waiters[old(j)] # r
    BY <1>2, <1>5 DEF QueueIsWaiters
  <2> QED BY <1>1, <1>4, <1>5, <2>1 DEF QueueIsWaiters, TypeInv
<1>9. ASSUME NEW q \in Requests, pc'[q] = "waiting"
      PROVE  \E j \in 1..Len(waiters') : waiters'[j] = q
  <2>1. q # r /\ pc[q] = "waiting"
    BY <1>4, <1>9 DEF TypeInv
  <2>2. PICK i \in 1..Len(waiters) : waiters[i] = q
    BY <2>1 DEF QueueIsWaiters
  <2>3. PICK j \in 1..Len(waiters') : old(j) = i
    BY <1>2, <1>7, <2>1, <2>2
  <2> QED BY <1>5, <2>2, <2>3
<1>10. \A i, j \in 1..Len(waiters') : waiters'[i] = waiters'[j] => i = j
  BY <1>5, <1>6 DEF QueueIsWaiters
<1>11. waiters # <<>>
  BY <1>1, <1>2, EmptySeq
<1> QED BY <1>8, <1>9, <1>10, <1>11 DEF QueueIsWaiters

\* The gate's own invariant: the queue is the live waiting handlers, and a
\* permit stays in the pool only when nobody waits.
LEMMA GateNext ==
  ASSUME TypeInv, QueueIsWaiters, GateNeverIdles, [Next]_vars
  PROVE  QueueIsWaiters' /\ GateNeverIdles'
<1> USE DEF TypeInv
<1>1. ASSUME NEW r \in Requests, Admit(r) \/ Shed(r) \/ RejectContract(r)
                                   \/ Resume(r)
      PROVE  QueueIsWaiters' /\ GateNeverIdles'
  BY <1>1, QueueFrame
     DEF Admit, Shed, RejectContract, Resume, Answer, GateNeverIdles
<1>2. ASSUME NEW r \in Requests, AcquireNow(r)
      PROVE  QueueIsWaiters' /\ GateNeverIdles'
  BY <1>2, QueueFrame DEF AcquireNow, GateNeverIdles
<1>3. ASSUME NEW r \in Requests, Wait(r)
      PROVE  QueueIsWaiters' /\ GateNeverIdles'
  BY <1>3, QueueWait DEF Wait, GateNeverIdles
<1>4. ASSUME NEW r \in Requests, StartTask(r) \/ FinishRun(r)
                                   \/ FinishExternal(r) \/ FinishStoreCts(r)
      PROVE  QueueIsWaiters' /\ GateNeverIdles'
  BY <1>4, QueueFrame
     DEF StartTask, FinishRun, FinishExternal, FinishStoreCts, GateNeverIdles
<1>5. ASSUME NEW r \in Requests, BeginPersist(r) \/ JoinFailed(r) \/ FinishPersist(r)
      PROVE  QueueIsWaiters' /\ GateNeverIdles'
  BY <1>5, QueueFrame
     DEF BeginPersist, JoinFailed, FinishPersist, Answer, GateNeverIdles
<1>6. ASSUME NEW r \in Requests, ReleaseCpu(r)
      PROVE  QueueIsWaiters' /\ GateNeverIdles'
  <2>1. ReleaseVerify(pc, waiters)
    BY <1>6 DEF ReleaseCpu
  <2>2. QueueIsWaiters'
    BY <2>1, QueueRelease
  <2> QED BY <2>1, <2>2 DEF ReleaseVerify, GateNeverIdles
<1>7. ASSUME NEW r \in Requests, Disconnect(r)
      PROVE  QueueIsWaiters' /\ GateNeverIdles'
  <2>1. CASE DropWaiter(r)
    BY <2>1, QueueDrop DEF DropWaiter, GateNeverIdles
  <2>2. CASE DropGranted(r)
    <3>1. /\ ReleaseVerify(Gone(r), waiters)
          /\ Gone(r) \in [Requests -> {"new"} \union Holding \union Finished]
          /\ \A q \in Requests : Gone(r)[q] = "waiting" <=> pc[q] = "waiting"
      BY <2>2 DEF DropGranted, Gone, Finished
    <3>2. QueueIsWaiters'
      BY <3>1, QueueRelease
    <3> QED BY <3>1, <3>2 DEF ReleaseVerify, GateNeverIdles
  <2>3. CASE DropLater(r)
    BY <2>3, QueueFrame DEF DropLater, Gone, GateNeverIdles
  <2> QED BY <1>7, <2>1, <2>2, <2>3 DEF Disconnect
<1>8. CASE UNCHANGED vars
  BY <1>8, QueueFrame DEF vars, GateNeverIdles
<1> QED
  BY <1>1, <1>2, <1>3, <1>4, <1>5, <1>6, <1>7, <1>8
     DEF Next, HandlerStep, TaskStep, Idle

-----------------------------------------------------------------------------
(* The two actors of a request stay in step.                               *)

\* A handler joins only a task it spawned, persists only what that task
\* verified, and is sent its answer as it leaves.
Stages ==
  \A r \in Requests :
    /\ pc[r] \in {"new", "admitted", "waiting", "granted"} => task[r] = "none"
    /\ pc[r] = "joining" => task[r] # "none"
    /\ pc[r] = "persisting" => task[r] = "done" /\ result[r] = "verified"
    /\ pc[r] = "answered" => task[r] \in {"none", "done"}
    /\ task[r] \in {"none", "queued", "running"} => result[r] = "none"
    /\ task[r] \in {"closing", "done"} => result[r] # "none"
    /\ external[r] # "idle" \/ store_cts[r] # "idle" =>
         /\ task[r] = "done" /\ result[r] = "verified"
         /\ pc[r] \in {"persisting"} \union Finished
    /\ pc[r] = "answered" <=> reply[r] # "none"
    /\ reply[r] = "Success" =>
         /\ result[r] = "verified"
         /\ external[r] = "ok" /\ store_cts[r] = "ok"

LEMMA StagesInit == Init => Stages
BY DEF Init, Stages

\* What handing a permit on does to pc: nothing, or a waiter is granted.
LEMMA ReleaseVerifyControl ==
  ASSUME TypeInv, QueueIsWaiters,
         NEW control \in [Requests -> {"new"} \union Holding \union Finished],
         ReleaseVerify(control, waiters)
  PROVE  \/ /\ waiters = <<>> /\ pc' = control
            /\ verify_free' = verify_free + 1
         \/ \E h \in Requests : /\ pc[h] = "waiting"
                                /\ pc' = [control EXCEPT ![h] = "granted"]
                                /\ verify_free' = verify_free
                                /\ waiters # <<>>
<1>1. CASE waiters = <<>>
  BY <1>1 DEF ReleaseVerify
<1>2. CASE waiters # <<>>
  BY <1>2, HeadWaits DEF ReleaseVerify
<1> QED BY <1>1, <1>2

LEMMA StagesNext ==
  ASSUME TypeInv, QueueIsWaiters, Stages, [Next]_vars
  PROVE  Stages'
<1> USE DEF TypeInv, Holding, Awaiting, Finished, OnCpu, Results, Branch, Replies
<1>1. ASSUME NEW r \in Requests, Admit(r) PROVE Stages'
  BY <1>1 DEF Admit, Stages
<1>2. ASSUME NEW r \in Requests, Shed(r) PROVE Stages'
  BY <1>2 DEF Shed, Stages
<1>3. ASSUME NEW r \in Requests, RejectContract(r) PROVE Stages'
  BY <1>3 DEF RejectContract, Answer, Stages
<1>4. ASSUME NEW r \in Requests, AcquireNow(r) PROVE Stages'
  BY <1>4 DEF AcquireNow, Stages
<1>5. ASSUME NEW r \in Requests, Wait(r) PROVE Stages'
  BY <1>5 DEF Wait, Stages
<1>6. ASSUME NEW r \in Requests, Resume(r) PROVE Stages'
  BY <1>6 DEF Resume, Stages
<1>7. ASSUME NEW r \in Requests, StartTask(r) PROVE Stages'
  BY <1>7 DEF StartTask, Stages
<1>8. ASSUME NEW r \in Requests, FinishRun(r) PROVE Stages'
  BY <1>8 DEF FinishRun, Stages
<1>9. ASSUME NEW r \in Requests, ReleaseCpu(r) PROVE Stages'
  <2>1. \/ pc' = pc
        \/ \E h \in Requests : pc[h] = "waiting" /\ pc' = [pc EXCEPT ![h] = "granted"]
    BY <1>9, ReleaseVerifyControl DEF ReleaseCpu
  <2>2. /\ task[r] = "closing" /\ task' = [task EXCEPT ![r] = "done"]
        /\ UNCHANGED <<result, external, store_cts, reply>>
    BY <1>9 DEF ReleaseCpu
  <2>3. CASE pc' = pc
    BY <2>2, <2>3 DEF Stages
  <2>4. ASSUME NEW h \in Requests, pc[h] = "waiting",
               pc' = [pc EXCEPT ![h] = "granted"]
        PROVE  Stages'
    BY <2>2, <2>4 DEF Stages
  <2> QED BY <2>1, <2>3, <2>4
<1>10. ASSUME NEW r \in Requests, BeginPersist(r) PROVE Stages'
  BY <1>10 DEF BeginPersist, Stages
<1>11. ASSUME NEW r \in Requests, JoinFailed(r) PROVE Stages'
  BY <1>11 DEF JoinFailed, Answer, Stages
<1>12. ASSUME NEW r \in Requests, FinishExternal(r) PROVE Stages'
  BY <1>12 DEF FinishExternal, Stages
<1>13. ASSUME NEW r \in Requests, FinishStoreCts(r) PROVE Stages'
  BY <1>13 DEF FinishStoreCts, Stages
<1>14. ASSUME NEW r \in Requests, FinishPersist(r) PROVE Stages'
  BY <1>14 DEF FinishPersist, Answer, Stages
<1>15. ASSUME NEW r \in Requests, Disconnect(r) PROVE Stages'
  <2>1. UNCHANGED <<task, result, external, store_cts, reply>>
    BY <1>15 DEF Disconnect
  <2>2. CASE DropWaiter(r)
    BY <2>1, <2>2 DEF DropWaiter, Gone, Stages
  <2>3. CASE DropGranted(r)
    <3>1. /\ pc[r] = "granted"
          /\ \/ pc' = Gone(r)
             \/ \E h \in Requests : /\ pc[h] = "waiting"
                                    /\ pc' = [Gone(r) EXCEPT ![h] = "granted"]
      BY <2>3, ReleaseVerifyControl DEF DropGranted, Gone
    <3>2. CASE pc' = Gone(r)
      BY <2>1, <3>1, <3>2 DEF Gone, Stages
    <3>3. ASSUME NEW h \in Requests, pc[h] = "waiting",
                 pc' = [Gone(r) EXCEPT ![h] = "granted"]
          PROVE  Stages'
      BY <2>1, <3>1, <3>3 DEF Gone, Stages
    <3> QED BY <3>1, <3>2, <3>3
  <2>4. CASE DropLater(r)
    BY <2>1, <2>4 DEF DropLater, Gone, Stages
  <2> QED BY <1>15, <2>2, <2>3, <2>4 DEF Disconnect
<1>16. CASE UNCHANGED vars
  BY <1>16 DEF vars, Stages
<1> QED
  BY <1>1, <1>2, <1>3, <1>4, <1>5, <1>6, <1>7, <1>8, <1>9, <1>10, <1>11,
     <1>12, <1>13, <1>14, <1>15, <1>16
     DEF Next, HandlerStep, TaskStep, Idle

-----------------------------------------------------------------------------
(* Conservation: what the counters count.                                  *)

Running == {r \in Requests : task[r] = "running"}

\* One element joins, leaves, or is replaced in a set of requests.
LEMMA CardinalityMoves ==
  ASSUME NEW S \in SUBSET Requests, NEW r \in Requests
  PROVE  /\ Cardinality(S) \in Nat
         /\ r \notin S => Cardinality(S \union {r}) = Cardinality(S) + 1
         /\ r \in S => Cardinality(S \ {r}) = Cardinality(S) - 1
         /\ \A h \in Requests :
              r \in S /\ h \notin S =>
                Cardinality((S \ {r}) \union {h}) = Cardinality(S)
<1>1. IsFiniteSet(S)
  BY RequestsAssumption, FS_Subset
<1>2. Cardinality(S) \in Nat
  BY <1>1, FS_CardinalityType
<1>3. r \notin S => Cardinality(S \union {r}) = Cardinality(S) + 1
  BY <1>1, FS_AddElement
<1>4. r \in S => Cardinality(S \ {r}) = Cardinality(S) - 1
  BY <1>1, FS_RemoveElement
<1>5. ASSUME NEW h \in Requests, r \in S, h \notin S
      PROVE  Cardinality((S \ {r}) \union {h}) = Cardinality(S)
  <2>1. IsFiniteSet(S \ {r})
    BY <1>1, FS_RemoveElement
  <2>2. h \notin S \ {r}
    BY <1>5
  <2>3. Cardinality((S \ {r}) \union {h}) = Cardinality(S \ {r}) + 1
    BY <2>1, <2>2, FS_AddElement
  <2> QED BY <1>2, <1>4, <1>5, <2>3
<1> QED BY <1>2, <1>3, <1>4, <1>5

\* A permit of admit_sem moves exactly when a handler enters or leaves.
LEMMA AdmissionMoves ==
  ASSUME TypeInv, QueueIsWaiters, [Next]_vars
  PROVE  \/ admit_free' = admit_free /\ Admitted' = Admitted
         \/ \E r \in Requests : /\ r \notin Admitted
                                /\ admit_free' = admit_free - 1
                                /\ Admitted' = Admitted \union {r}
         \/ \E r \in Requests : /\ r \in Admitted
                                /\ admit_free' = admit_free + 1
                                /\ Admitted' = Admitted \ {r}
<1> USE DEF TypeInv, Holding, Awaiting, Finished, Admitted
<1>1. ASSUME NEW r \in Requests, Admit(r)
      PROVE  /\ r \notin Admitted
             /\ admit_free' = admit_free - 1
             /\ Admitted' = Admitted \union {r}
  BY <1>1 DEF Admit
<1>2. ASSUME NEW r \in Requests,
             RejectContract(r) \/ JoinFailed(r) \/ FinishPersist(r)
      PROVE  /\ r \in Admitted
             /\ admit_free' = admit_free + 1
             /\ Admitted' = Admitted \ {r}
  BY <1>2 DEF RejectContract, JoinFailed, FinishPersist, Answer
<1>3. ASSUME NEW r \in Requests, Disconnect(r)
      PROVE  /\ r \in Admitted
             /\ admit_free' = admit_free + 1
             /\ Admitted' = Admitted \ {r}
  <2>1. CASE DropWaiter(r) \/ DropLater(r)
    BY <1>3, <2>1 DEF Disconnect, DropWaiter, DropLater, Gone
  <2>2. CASE DropGranted(r)
    <3>1. /\ pc[r] = "granted"
          /\ \/ pc' = Gone(r)
             \/ \E h \in Requests : /\ pc[h] = "waiting"
                                    /\ pc' = [Gone(r) EXCEPT ![h] = "granted"]
      BY <2>2, ReleaseVerifyControl DEF DropGranted, Gone
    <3> QED BY <1>3, <3>1 DEF Disconnect, Gone
  <2> QED BY <1>3, <2>1, <2>2 DEF Disconnect
<1>4. ASSUME NEW r \in Requests, ReleaseCpu(r)
      PROVE  admit_free' = admit_free /\ Admitted' = Admitted
  <2>1. \/ pc' = pc
        \/ \E h \in Requests : pc[h] = "waiting" /\ pc' = [pc EXCEPT ![h] = "granted"]
    BY <1>4, ReleaseVerifyControl DEF ReleaseCpu
  <2> QED BY <1>4, <2>1 DEF ReleaseCpu
<1>5. ASSUME NEW r \in Requests,
             \/ Shed(r) \/ AcquireNow(r) \/ Wait(r) \/ Resume(r) \/ StartTask(r)
             \/ FinishRun(r) \/ BeginPersist(r) \/ FinishExternal(r)
             \/ FinishStoreCts(r)
      PROVE  admit_free' = admit_free /\ Admitted' = Admitted
  BY <1>5 DEF Shed, AcquireNow, Wait, Resume, StartTask, FinishRun,
              BeginPersist, FinishExternal, FinishStoreCts
<1>6. CASE UNCHANGED vars
  BY <1>6 DEF vars
<1> QED
  BY <1>1, <1>2, <1>3, <1>4, <1>5, <1>6 DEF Next, HandlerStep, TaskStep, Idle

\* So the admission permits are conserved,
LEMMA AdmissionNext ==
  ASSUME TypeInv, QueueIsWaiters, AdmissionConserved, [Next]_vars
  PROVE  AdmissionConserved'
<1>1. Admitted \in SUBSET Requests
  BY DEF Admitted
<1>2. CASE admit_free' = admit_free /\ Admitted' = Admitted
  BY <1>2 DEF AdmissionConserved
<1>3. ASSUME NEW r \in Requests, r \notin Admitted,
             admit_free' = admit_free - 1, Admitted' = Admitted \union {r}
      PROVE  AdmissionConserved'
  BY <1>1, <1>3, CardinalityMoves, LimitsAssumption DEF AdmissionConserved, TypeInv
<1>4. ASSUME NEW r \in Requests, r \in Admitted,
             admit_free' = admit_free + 1, Admitted' = Admitted \ {r}
      PROVE  AdmissionConserved'
  <2>1. /\ Cardinality(Admitted) \in Nat
        /\ Cardinality(Admitted \ {r}) = Cardinality(Admitted) - 1
    BY <1>1, <1>4, CardinalityMoves
  <2>2. admit_free \in Nat
    BY DEF TypeInv
  <2> QED BY <1>4, <2>1, <2>2 DEF AdmissionConserved
<1> QED BY <1>2, <1>3, <1>4, AdmissionMoves

\* A permit of verify_sem moves when a verification is spawned or ends, or is
\* handed over, from one holder to the next, without passing by the pool.
LEMMA CpuMoves ==
  ASSUME TypeInv, QueueIsWaiters, Stages, [Next]_vars
  PROVE  \/ verify_free' = verify_free /\ CpuHolders' = CpuHolders
         \/ \E r \in Requests : /\ r \notin CpuHolders
                                /\ verify_free' = verify_free - 1
                                /\ CpuHolders' = CpuHolders \union {r}
         \/ \E r \in Requests : /\ r \in CpuHolders
                                /\ verify_free' = verify_free + 1
                                /\ CpuHolders' = CpuHolders \ {r}
         \/ \E r, h \in Requests : /\ r \in CpuHolders /\ h \notin CpuHolders
                                   /\ verify_free' = verify_free
                                   /\ CpuHolders' = (CpuHolders \ {r}) \union {h}
<1> USE DEF TypeInv, Holding, Awaiting, Finished, OnCpu, CpuHolders
<1>1. ASSUME NEW r \in Requests, AcquireNow(r)
      PROVE  /\ r \notin CpuHolders
             /\ verify_free' = verify_free - 1
             /\ CpuHolders' = CpuHolders \union {r}
  BY <1>1 DEF AcquireNow, Stages
<1>2. ASSUME NEW r \in Requests, ReleaseCpu(r)
      PROVE  \/ /\ r \in CpuHolders
                /\ verify_free' = verify_free + 1
                /\ CpuHolders' = CpuHolders \ {r}
             \/ \E h \in Requests : /\ r \in CpuHolders /\ h \notin CpuHolders
                                    /\ verify_free' = verify_free
                                    /\ CpuHolders' = (CpuHolders \ {r}) \union {h}
  <2>1. /\ task[r] = "closing" /\ task' = [task EXCEPT ![r] = "done"]
        /\ pc[r] # "granted" /\ pc[r] # "waiting"
    BY <1>2 DEF ReleaseCpu, Stages
  <2>2. CASE pc' = pc /\ verify_free' = verify_free + 1
    BY <2>1, <2>2
  <2>3. ASSUME NEW h \in Requests, pc[h] = "waiting",
               pc' = [pc EXCEPT ![h] = "granted"], verify_free' = verify_free
        PROVE  /\ r \in CpuHolders /\ h \notin CpuHolders
               /\ CpuHolders' = (CpuHolders \ {r}) \union {h}
    <3>1. task[h] = "none" /\ h # r
      BY <2>1, <2>3 DEF Stages
    <3> QED BY <2>1, <2>3, <3>1
  <2> QED BY <1>2, <2>2, <2>3, ReleaseVerifyControl DEF ReleaseCpu
<1>3. ASSUME NEW r \in Requests, DropGranted(r), Disconnect(r)
      PROVE  \/ /\ r \in CpuHolders
                /\ verify_free' = verify_free + 1
                /\ CpuHolders' = CpuHolders \ {r}
             \/ \E h \in Requests : /\ r \in CpuHolders /\ h \notin CpuHolders
                                    /\ verify_free' = verify_free
                                    /\ CpuHolders' = (CpuHolders \ {r}) \union {h}
  <2>1. pc[r] = "granted" /\ task' = task /\ task[r] = "none"
    BY <1>3 DEF DropGranted, Disconnect, Stages
  <2>2. CASE pc' = Gone(r) /\ verify_free' = verify_free + 1
    BY <2>1, <2>2 DEF Gone
  <2>3. ASSUME NEW h \in Requests, pc[h] = "waiting",
               pc' = [Gone(r) EXCEPT ![h] = "granted"], verify_free' = verify_free
        PROVE  /\ r \in CpuHolders /\ h \notin CpuHolders
               /\ CpuHolders' = (CpuHolders \ {r}) \union {h}
    <3>1. task[h] = "none" /\ h # r
      BY <2>1, <2>3 DEF Stages
    <3> QED BY <2>1, <2>3, <3>1 DEF Gone
  <2>4. Gone(r) \in [Requests -> {"new"} \union Holding \union Finished]
    BY DEF Gone
  <2> QED BY <1>3, <2>2, <2>3, <2>4, ReleaseVerifyControl DEF DropGranted
<1>4. ASSUME NEW r \in Requests, Disconnect(r), ~DropGranted(r)
      PROVE  verify_free' = verify_free /\ CpuHolders' = CpuHolders
  BY <1>4 DEF Disconnect, DropWaiter, DropLater, Gone
<1>5. ASSUME NEW r \in Requests,
             \/ Admit(r) \/ Shed(r) \/ RejectContract(r) \/ Wait(r) \/ Resume(r)
             \/ StartTask(r) \/ FinishRun(r)
      PROVE  verify_free' = verify_free /\ CpuHolders' = CpuHolders
  BY <1>5 DEF Admit, Shed, RejectContract, Wait, Resume, StartTask, FinishRun, Answer
<1>6. ASSUME NEW r \in Requests,
             \/ BeginPersist(r) \/ JoinFailed(r) \/ FinishExternal(r)
             \/ FinishStoreCts(r) \/ FinishPersist(r)
      PROVE  verify_free' = verify_free /\ CpuHolders' = CpuHolders
  BY <1>6 DEF BeginPersist, JoinFailed, FinishExternal, FinishStoreCts,
              FinishPersist, Answer
<1>7. CASE UNCHANGED vars
  BY <1>7 DEF vars
<1> QED
  BY <1>1, <1>2, <1>3, <1>4, <1>5, <1>6, <1>7 DEF Next, HandlerStep, TaskStep, Idle

\* and so are the CPU permits.
LEMMA CpuNext ==
  ASSUME TypeInv, QueueIsWaiters, Stages, CpuPermitsConserved, [Next]_vars
  PROVE  CpuPermitsConserved'
<1>1. CpuHolders \in SUBSET Requests
  BY DEF CpuHolders
<1>2. CASE verify_free' = verify_free /\ CpuHolders' = CpuHolders
  BY <1>2 DEF CpuPermitsConserved
<1>3. ASSUME NEW r \in Requests, r \notin CpuHolders,
             verify_free' = verify_free - 1, CpuHolders' = CpuHolders \union {r}
      PROVE  CpuPermitsConserved'
  BY <1>1, <1>3, CardinalityMoves, LimitsAssumption DEF CpuPermitsConserved, TypeInv
<1>4. ASSUME NEW r \in Requests, r \in CpuHolders,
             verify_free' = verify_free + 1, CpuHolders' = CpuHolders \ {r}
      PROVE  CpuPermitsConserved'
  <2>1. /\ Cardinality(CpuHolders) \in Nat
        /\ Cardinality(CpuHolders \ {r}) = Cardinality(CpuHolders) - 1
    BY <1>1, <1>4, CardinalityMoves
  <2>2. verify_free \in Nat
    BY DEF TypeInv
  <2> QED BY <1>4, <2>1, <2>2 DEF CpuPermitsConserved
<1>5. ASSUME NEW r \in Requests, NEW h \in Requests,
             r \in CpuHolders, h \notin CpuHolders,
             verify_free' = verify_free,
             CpuHolders' = (CpuHolders \ {r}) \union {h}
      PROVE  CpuPermitsConserved'
  BY <1>1, <1>5, CardinalityMoves DEF CpuPermitsConserved
<1> QED BY <1>2, <1>3, <1>4, <1>5, CpuMoves

\* A handler that has no permit yet, or has just got it, has no task.
LEMMA StagesBeforeSpawn ==
  ASSUME Stages, NEW r \in Requests, pc[r] \in {"admitted", "granted"}
  PROVE  task[r] = "none"
BY DEF Stages

\* The gauge moves with the verifications that run.
LEMMA GaugeNext ==
  ASSUME TypeInv, Stages, GaugeBalanced, [Next]_vars
  PROVE  GaugeBalanced'
<1> USE DEF TypeInv, OnCpu, Running
<1>1. Running \in SUBSET Requests /\ in_flight = Cardinality(Running)
  BY DEF GaugeBalanced
<1>2. ASSUME NEW r \in Requests, StartTask(r) PROVE GaugeBalanced'
  <2>1. r \notin Running /\ Running' = Running \union {r} /\ in_flight' = in_flight + 1
    BY <1>2 DEF StartTask
  <2>2. Cardinality(Running \union {r}) = Cardinality(Running) + 1
    BY <1>1, <2>1, CardinalityMoves
  <2> QED BY <1>1, <2>1, <2>2 DEF GaugeBalanced
<1>3. ASSUME NEW r \in Requests, FinishRun(r) PROVE GaugeBalanced'
  <2>1. r \in Running /\ Running' = Running \ {r} /\ in_flight' = in_flight - 1
    BY <1>3 DEF FinishRun
  <2>2. Cardinality(Running \ {r}) = Cardinality(Running) - 1
    BY <1>1, <2>1, CardinalityMoves
  <2> QED BY <1>1, <2>1, <2>2 DEF GaugeBalanced
<1>4. CASE in_flight' = in_flight /\ Running' = Running
  BY <1>1, <1>4 DEF GaugeBalanced
<1>5. ASSUME NEW r \in Requests,
             \/ Admit(r) \/ Shed(r) \/ RejectContract(r) \/ AcquireNow(r)
             \/ Wait(r) \/ Resume(r) \/ ReleaseCpu(r)
      PROVE  in_flight' = in_flight /\ Running' = Running
  <2>1. CASE ReleaseCpu(r)
    BY <2>1 DEF ReleaseCpu
  <2>2. CASE AcquireNow(r) \/ Resume(r)
    BY <2>2, StagesBeforeSpawn DEF AcquireNow, Resume
  <2> QED BY <1>5, <2>1, <2>2 DEF Admit, Shed, RejectContract, Wait, Answer
<1>6. ASSUME NEW r \in Requests,
             \/ BeginPersist(r) \/ JoinFailed(r) \/ FinishExternal(r)
             \/ FinishStoreCts(r) \/ FinishPersist(r) \/ Disconnect(r)
      PROVE  in_flight' = in_flight /\ Running' = Running
  BY <1>6 DEF BeginPersist, JoinFailed, FinishExternal, FinishStoreCts,
              FinishPersist, Disconnect, Answer
<1>7. CASE UNCHANGED vars
  BY <1>4, <1>7 DEF vars
<1> QED
  BY <1>2, <1>3, <1>4, <1>5, <1>6, <1>7 DEF Next, HandlerStep, TaskStep, Idle

-----------------------------------------------------------------------------
(* The inductive invariant.                                                *)

IInv ==
  /\ TypeInv
  /\ Stages
  /\ QueueIsWaiters
  /\ GateNeverIdles
  /\ AdmissionConserved
  /\ CpuPermitsConserved
  /\ GaugeBalanced

LEMMA IInvInit == Init => IInv
<1> SUFFICES ASSUME Init PROVE IInv
  OBVIOUS
<1>1. QueueIsWaiters /\ GateNeverIdles
  BY DEF Init, QueueIsWaiters, GateNeverIdles
<1>2. Admitted = {} /\ CpuHolders = {} /\ Running = {}
  BY DEF Init, Admitted, CpuHolders, Running, Holding, Awaiting, OnCpu
<1>3. AdmissionConserved /\ CpuPermitsConserved /\ GaugeBalanced
  <2>1. Cardinality({}) = 0
    BY FS_EmptySet
  <2>2. AdmissionConserved
    BY <1>2, <2>1, LimitsAssumption DEF Init, AdmissionConserved
  <2>3. CpuPermitsConserved
    BY <1>2, <2>1, LimitsAssumption DEF Init, CpuPermitsConserved
  <2>4. GaugeBalanced
    <3>1. {r \in Requests : task[r] = "running"} = {}
      BY <1>2 DEF Running
    <3> QED BY <2>1, <3>1 DEF Init, GaugeBalanced
  <2> QED BY <2>2, <2>3, <2>4
<1> QED BY <1>1, <1>3, TypeInvInit, StagesInit DEF IInv

LEMMA IInvNext == IInv /\ [Next]_vars => IInv'
BY TypeInvNext, StagesNext, GateNext, AdmissionNext, CpuNext, GaugeNext DEF IInv

LEMMA Invariant == Spec => []IInv
BY IInvInit, IInvNext, PTL DEF Spec
-----------------------------------------------------------------------------
(* The safety properties.                                                  *)

\* The bounds of the two counters follow from what they count.
LEMMA CountersBounded ==
  ASSUME IInv
  PROVE  /\ admit_free \in 0..MAX_INFLIGHT
         /\ verify_free \in 0..VERIFY_CONCURRENCY
<1>1. Admitted \in SUBSET Requests /\ CpuHolders \in SUBSET Requests
  BY DEF Admitted, CpuHolders
<1>2. Cardinality(Admitted) \in Nat /\ Cardinality(CpuHolders) \in Nat
  BY <1>1, RequestsAssumption, FS_Subset, FS_CardinalityType
<1> QED
  BY <1>2, LimitsAssumption
     DEF IInv, TypeInv, AdmissionConserved, CpuPermitsConserved

\* Every verification that runs holds a permit of the gate.
LEMMA GaugeBelowGate ==
  ASSUME IInv
  PROVE  GaugeWithinGate
<1>1. Running \subseteq CpuHolders /\ CpuHolders \subseteq Requests
  BY DEF Running, CpuHolders, OnCpu
<1>2. IsFiniteSet(CpuHolders)
  BY <1>1, RequestsAssumption, FS_Subset
<1>3. /\ Cardinality(Running) \in Nat /\ Cardinality(CpuHolders) \in Nat
      /\ Cardinality(Running) <= Cardinality(CpuHolders)
  BY <1>1, <1>2, FS_Subset, FS_CardinalityType
<1>4. in_flight = Cardinality(Running)
  BY DEF IInv, GaugeBalanced, Running
<1> QED
  BY <1>3, <1>4, LimitsAssumption
     DEF IInv, TypeInv, CpuPermitsConserved, GaugeWithinGate

\* Every variable keeps its type, and neither semaphore ever holds more permits
\* than it was built with or goes below zero (admit_sem and verify_sem).
THEOREM TypeCorrect == Spec => []TypeOK
<1>1. IInv => TypeOK
  BY CountersBounded DEF IInv, TypeInv, TypeOK
<1> QED BY <1>1, Invariant, PTL

\* For every number of requests and every cap, an admission permit is out
\* exactly for every admitted handler still alive (_admit).
THEOREM AdmissionNeverLeaks == Spec => []AdmissionConserved
BY Invariant, PTL DEF IInv

\* For every number of requests and every gate, a CPU permit is out exactly for
\* a handler that was handed one or a verification not yet over (gated_verify).
THEOREM CpuPermitsNeverLeak == Spec => []CpuPermitsConserved
BY Invariant, PTL DEF IInv

\* The queue of the CPU gate is exactly the live handlers that wait, each once
\* (the queue behind acquire_owned in gated_verify).
THEOREM QueueIsExact == Spec => []QueueIsWaiters
BY Invariant, PTL DEF IInv

\* No wake-up is lost: a CPU permit stays in the pool only when nobody waits.
THEOREM NoLostWakeUp == Spec => []GateNeverIdles
BY Invariant, PTL DEF IInv

\* The gauge counts the verifications that run (InFlightGuard).
THEOREM GaugeIsExact == Spec => []GaugeBalanced
BY Invariant, PTL DEF IInv

\* The gauge never exceeds the permits taken: the guard is dropped before the
\* permit (the order of the locals in gated_verify's blocking closure).
THEOREM GaugeStaysWithinGate == Spec => []GaugeWithinGate
<1>1. IInv => GaugeWithinGate
  BY GaugeBelowGate
<1> QED BY <1>1, Invariant, PTL

-----------------------------------------------------------------------------
(* First come, first served.                                               *)

\* A waiter is granted a permit only from the head of the queue.
LEMMA OnlyHeadIsGranted ==
  ASSUME IInv, [Next]_vars, NEW q \in Requests,
         pc[q] = "waiting", pc'[q] = "granted"
  PROVE  q = Head(waiters)
<1> USE DEF IInv, TypeInv
<1>1. ASSUME NEW control \in [Requests -> {"new"} \union Holding \union Finished],
             control[q] = "waiting", ReleaseVerify(control, waiters)
      PROVE  q = Head(waiters)
  <2>1. waiters # <<>>
    BY <1>1 DEF ReleaseVerify
  <2>2. pc' = [control EXCEPT ![Head(waiters)] = "granted"]
    BY <1>1, <2>1 DEF ReleaseVerify
  <2> HIDE DEF IInv, TypeInv
  <2> QED BY <1>1, <2>2
<1>2. ASSUME NEW r \in Requests, ReleaseCpu(r) PROVE q = Head(waiters)
  BY <1>1, <1>2 DEF ReleaseCpu
<1>3. ASSUME NEW r \in Requests, Disconnect(r) PROVE q = Head(waiters)
  <2>1. CASE DropGranted(r)
    <3>1. /\ Gone(r) \in [Requests -> {"new"} \union Holding \union Finished]
          /\ Gone(r)[q] = "waiting" /\ ReleaseVerify(Gone(r), waiters)
      BY <2>1 DEF DropGranted, Gone, Finished
    <3> QED BY <1>1, <3>1
  <2>2. CASE DropWaiter(r) \/ DropLater(r)
    BY <2>2 DEF DropWaiter, DropLater, Gone
  <2> QED BY <1>3, <2>1, <2>2 DEF Disconnect
<1>4. ASSUME NEW r \in Requests,
             \/ Admit(r) \/ Shed(r) \/ RejectContract(r) \/ AcquireNow(r)
             \/ Wait(r) \/ Resume(r) \/ BeginPersist(r) \/ JoinFailed(r)
             \/ FinishPersist(r)
      PROVE  q = Head(waiters)
  BY <1>4 DEF Admit, Shed, RejectContract, AcquireNow, Wait, Resume,
              BeginPersist, JoinFailed, FinishPersist, Answer
<1>5. ASSUME NEW r \in Requests,
             StartTask(r) \/ FinishRun(r) \/ FinishExternal(r) \/ FinishStoreCts(r)
      PROVE  q = Head(waiters)
  BY <1>5 DEF StartTask, FinishRun, FinishExternal, FinishStoreCts
<1>6. CASE UNCHANGED vars
  BY <1>6 DEF vars
<1> QED
  BY <1>2, <1>3, <1>4, <1>5, <1>6 DEF Next, HandlerStep, TaskStep, Idle

\* A handler passes the gate without waiting only when the queue is empty.
LEMMA NewcomersQueue ==
  ASSUME IInv, [Next]_vars, NEW r \in Requests,
         pc[r] = "admitted", pc'[r] = "joining"
  PROVE  waiters = <<>>
<1> USE DEF IInv, TypeInv, Holding, Awaiting, Finished
<1>1. ASSUME NEW q \in Requests, AcquireNow(q) PROVE waiters = <<>>
  BY <1>1 DEF AcquireNow, GateNeverIdles
<1>2. ASSUME NEW q \in Requests, ReleaseCpu(q) PROVE waiters = <<>>
  BY <1>2, ReleaseVerifyControl DEF ReleaseCpu
<1>3. ASSUME NEW q \in Requests, Disconnect(q) PROVE waiters = <<>>
  <2>1. CASE DropGranted(q)
    <3>1. Gone(q) \in [Requests -> {"new"} \union Holding \union Finished]
      BY DEF Gone
    <3> QED BY <2>1, <3>1, ReleaseVerifyControl DEF DropGranted, Gone
  <2>2. CASE DropWaiter(q) \/ DropLater(q)
    BY <2>2 DEF DropWaiter, DropLater, Gone
  <2> QED BY <1>3, <2>1, <2>2 DEF Disconnect
<1>4. ASSUME NEW q \in Requests,
             \/ Admit(q) \/ Shed(q) \/ RejectContract(q) \/ Wait(q) \/ Resume(q)
             \/ BeginPersist(q) \/ JoinFailed(q) \/ FinishPersist(q)
      PROVE  waiters = <<>>
  BY <1>4 DEF Admit, Shed, RejectContract, Wait, Resume, BeginPersist,
              JoinFailed, FinishPersist, Answer
<1>5. ASSUME NEW q \in Requests,
             StartTask(q) \/ FinishRun(q) \/ FinishExternal(q) \/ FinishStoreCts(q)
      PROVE  waiters = <<>>
  BY <1>5 DEF StartTask, FinishRun, FinishExternal, FinishStoreCts
<1>6. CASE UNCHANGED vars
  BY <1>6 DEF vars
<1> QED
  BY <1>1, <1>2, <1>3, <1>4, <1>5, <1>6 DEF Next, HandlerStep, TaskStep, Idle

\* What NoOvertaking says of one step.
ServesInOrder ==
  /\ \A i, j \in 1..Len(waiters) :
       i < j /\ pc'[waiters[j]] = "granted" => pc'[waiters[i]] # "waiting"
  /\ \A r \in Requests :
       pc[r] = "admitted" /\ pc'[r] = "joining" => waiters = <<>>

\* No step serves a later waiter before an earlier one.
LEMMA StepServesInOrder == IInv /\ [Next]_vars => ServesInOrder
<1> SUFFICES ASSUME IInv, [Next]_vars PROVE ServesInOrder
  OBVIOUS
<1>1. ASSUME NEW i \in 1..Len(waiters), NEW j \in 1..Len(waiters),
             i < j, pc'[waiters[j]] = "granted"
      PROVE  FALSE
  <2>1. waiters[j] \in Requests /\ Len(waiters) \in Nat
    BY ElementOfSeq, LenProperties DEF IInv, TypeInv
  <2>2. pc[waiters[j]] = "waiting" /\ waiters # <<>>
    BY <1>1, <2>1, EmptySeq DEF IInv, QueueIsWaiters
  <2>3. waiters[j] = waiters[1] /\ 1 \in 1..Len(waiters)
    BY <1>1, <2>1, <2>2, OnlyHeadIsGranted, HeadWaits DEF IInv
  <2>4. j = 1
    BY <2>3 DEF IInv, QueueIsWaiters
  <2> QED BY <1>1, <2>1, <2>4
<1> QED BY <1>1, NewcomersQueue DEF ServesInOrder

\* The CPU gate is first come, first served for every number of requests
\* (the fair tokio semaphore behind gated_verify).
THEOREM GateIsFifo == Spec => NoOvertaking
<1>1. IInv /\ [Next]_vars => [ServesInOrder]_vars
  BY StepServesInOrder
<1> QED BY <1>1, Invariant, PTL DEF Spec, NoOvertaking, ServesInOrder

-----------------------------------------------------------------------------
(* VerifyBatch implements BoundedService, for every finite set of          *)
(* requests and every pair of limits.                                      *)

\* The state BoundedService sees.
Inside == Admitted
Working == {r \in Requests : task[r] \in OnCpu}
Proved == {r \in Requests : result[r] = "verified"}
Stored == {r \in Requests : external[r] = "ok" /\ store_cts[r] = "ok"}
Outcome == [r \in Requests |-> IF pc[r] = "dropped" THEN "Gone" ELSE reply[r]]

\* The instance's own copy of Cardinality is Cardinality.
LEMMA SameCardinality ==
  ASSUME NEW S
  PROVE  Promise!Cardinality(S) = Cardinality(S)
BY DEF Promise!Cardinality, Cardinality, Promise!IsFiniteSet, IsFiniteSet

LEMMA PromiseInit == Init => Promise!Init
BY DEF Init, Promise!Init, Admitted, Holding, Awaiting, OnCpu

-----------------------------------------------------------------------------
(* What the two limits come to, seen from outside.                         *)

\* A handler that enters finds room inside.
LEMMA RoomInside ==
  ASSUME IInv
  PROVE  /\ Cardinality(Inside) \in Nat
         /\ admit_free > 0 => Cardinality(Inside) < MAX_INFLIGHT
         /\ admit_free = 0 => Cardinality(Inside) >= MAX_INFLIGHT
<1>1. Inside \in SUBSET Requests
  BY DEF Inside, Admitted
<1>2. Cardinality(Inside) \in Nat
  BY <1>1, RequestsAssumption, FS_Subset, FS_CardinalityType
<1> QED
  BY <1>2, LimitsAssumption DEF IInv, TypeInv, AdmissionConserved, Inside

\* A step that spawns a verification finds one of the gate's slots free.
LEMMA RoomToWork ==
  ASSUME IInv, NEW r \in Requests, AcquireNow(r) \/ Resume(r)
  PROVE  Cardinality(Working) < VERIFY_CONCURRENCY
<1>1. Working \in SUBSET Requests /\ CpuHolders \in SUBSET Requests
  BY DEF Working, CpuHolders
<1>2. /\ IsFiniteSet(Working) /\ IsFiniteSet(CpuHolders)
      /\ Cardinality(Working) \in Nat /\ Cardinality(CpuHolders) \in Nat
  BY <1>1, RequestsAssumption, FS_Subset, FS_CardinalityType
<1>3. verify_free \in Nat /\ verify_free + Cardinality(CpuHolders) = VERIFY_CONCURRENCY
  BY DEF IInv, TypeInv, CpuPermitsConserved
<1>4. Working \subseteq CpuHolders
  BY DEF Working, CpuHolders
<1>5. Cardinality(Working) <= Cardinality(CpuHolders)
  BY <1>2, <1>4, FS_Subset
<1>6. CASE AcquireNow(r)
  BY <1>2, <1>3, <1>5, <1>6, LimitsAssumption DEF AcquireNow
<1>7. CASE Resume(r)
  <2>1. r \in CpuHolders /\ r \notin Working
    BY <1>7, StagesBeforeSpawn DEF Resume, CpuHolders, Working, OnCpu, IInv
  <2>2. Working \subseteq CpuHolders \ {r}
    BY <1>4, <2>1
  <2>3. IsFiniteSet(CpuHolders \ {r})
        /\ Cardinality(CpuHolders \ {r}) = Cardinality(CpuHolders) - 1
    BY <1>2, <2>1, FS_RemoveElement
  <2>4. Cardinality(Working) <= Cardinality(CpuHolders) - 1
    BY <2>2, <2>3, FS_Subset
  <2> QED BY <1>2, <1>3, <2>4, LimitsAssumption
<1> QED BY <1>6, <1>7

-----------------------------------------------------------------------------
(* Each action maps to an action of BoundedService, or to a stutter.       *)

\* Every step is one that BoundedService allows, or invisible to it.
LEMMA StepRefines == IInv /\ [Next]_vars => [Promise!Next]_(Promise!vars)
<1> SUFFICES ASSUME IInv, [Next]_vars
             PROVE  Promise!Next \/ UNCHANGED Promise!vars
  OBVIOUS
<1> USE DEF TypeInv, Holding, Awaiting, Finished, OnCpu, Results, Replies
<1>0. TypeInv /\ Stages /\ QueueIsWaiters
  BY DEF IInv
<1>1. ASSUME NEW r \in Requests, Admit(r) PROVE Promise!Enter(r)
  <2>1. Promise!Cardinality(Admitted) < MAX_INFLIGHT
    BY <1>1, RoomInside, SameCardinality DEF Admit, Inside
  <2>2. r \notin Admitted /\ Admitted' = Admitted \union {r}
    BY <1>0, <1>1 DEF Admit, Admitted
  <2>3. pc[r] = "new" /\ reply[r] = "none"
    BY <1>0, <1>1 DEF Admit, Stages
  <2>4. Outcome' = Outcome
    BY <1>0, <1>1 DEF Admit, Outcome
  <2>5. Outcome[r] = "none"
    BY <2>3 DEF Outcome
  <2>6. Working' = Working /\ Proved' = Proved /\ Stored' = Stored
    BY <1>1 DEF Admit, Working, Proved, Stored
  <2> QED
    BY <2>1, <2>2, <2>4, <2>5, <2>6
       DEF Outcome, Working, Proved, Stored, Promise!Enter, Promise!Outside
<1>2. ASSUME NEW r \in Requests, Shed(r) PROVE Promise!Shed(r)
  <2>1. Promise!Cardinality(Admitted) >= MAX_INFLIGHT
    BY <1>2, RoomInside, SameCardinality DEF Shed, Inside
  <2>2. r \notin Admitted /\ Admitted' = Admitted
    BY <1>0, <1>2 DEF Shed, Admitted
  <2>3. pc[r] = "new" /\ reply[r] = "none"
    BY <1>0, <1>2 DEF Shed, Stages
  <2>4. Outcome' = [Outcome EXCEPT ![r] = "ServerBusy"]
    BY <1>0, <1>2 DEF Shed, Outcome
  <2>5. Outcome[r] = "none"
    BY <2>3 DEF Outcome
  <2>6. Working' = Working /\ Proved' = Proved /\ Stored' = Stored
    BY <1>2 DEF Shed, Working, Proved, Stored
  <2> QED
    BY <2>1, <2>2, <2>4, <2>5, <2>6
       DEF Outcome, Working, Proved, Stored, Promise!Shed, Promise!Outside
<1>3. ASSUME NEW r \in Requests, NEW what \in Replies, what # "none",
             pc[r] \in Holding, Answer(r, what),
             what = "Success" => /\ task[r] = "done" /\ result[r] = "verified"
                                 /\ external[r] = "ok" /\ store_cts[r] = "ok",
             UNCHANGED <<task, result, external, store_cts>>
      PROVE  Promise!Leave(r, what)
  <2>1. r \in Admitted /\ Admitted' = Admitted \ {r}
    BY <1>0, <1>3 DEF Answer, Admitted
  <2>2. Outcome' = [Outcome EXCEPT ![r] = what]
    BY <1>0, <1>3 DEF Answer, Outcome
  <2> QED BY <1>3, <2>1, <2>2 DEF Outcome, Promise!Leave
<1>4. ASSUME NEW r \in Requests, RejectContract(r) PROVE Promise!Leave(r, "BadRequest")
  BY <1>3, <1>4 DEF RejectContract
<1>5. ASSUME NEW r \in Requests, AcquireNow(r) \/ Resume(r) PROVE Promise!BeginWork(r)
  <2>1. Promise!Cardinality(Working) < VERIFY_CONCURRENCY
    BY <1>5, RoomToWork, SameCardinality
  <2>2. r \in Admitted /\ Admitted' = Admitted /\ Outcome' = Outcome
    BY <1>0, <1>5 DEF AcquireNow, Resume, Admitted, Outcome
  <2>3. r \notin Working /\ Working' = Working \union {r}
    <3>1. task[r] = "none" /\ task' = [task EXCEPT ![r] = "queued"]
      BY <1>0, <1>5, StagesBeforeSpawn DEF AcquireNow, Resume
    <3> QED BY <1>0, <3>1 DEF Working
  <2>4. Proved' = Proved /\ Stored' = Stored
    BY <1>5 DEF AcquireNow, Resume, Proved, Stored
  <2> QED
    BY <2>1, <2>2, <2>3, <2>4
       DEF Working, Proved, Stored, Outcome, Promise!BeginWork
<1>6. ASSUME NEW r \in Requests, Wait(r) \/ StartTask(r) PROVE UNCHANGED Promise!vars
  <2>1. Admitted' = Admitted /\ Outcome' = Outcome /\ Working' = Working
    BY <1>0, <1>6 DEF Wait, StartTask, Admitted, Outcome, Working
  <2> QED BY <1>6, <2>1 DEF Wait, StartTask, Working, Outcome, Promise!vars
<1>7. ASSUME NEW r \in Requests, FinishRun(r)
      PROVE  Promise!Prove(r) \/ UNCHANGED Promise!vars
  <2>1. /\ r \in Working /\ Working' = Working
        /\ Admitted' = Admitted /\ Outcome' = Outcome /\ Stored' = Stored
    BY <1>0, <1>7 DEF FinishRun, Working, Admitted, Outcome, Stored
  <2>2. result[r] = "none"
    BY <1>0, <1>7 DEF FinishRun, Stages
  <2>3. Proved' = Proved \union {r} \/ Proved' = Proved
    BY <1>0, <1>7, <2>2 DEF FinishRun, Proved
  <2> QED
    BY <2>1, <2>3 DEF Working, Proved, Stored, Outcome, Promise!Prove, Promise!vars
<1>8. ASSUME NEW r \in Requests, ReleaseCpu(r) PROVE Promise!EndWork(r)
  <2>1. r \in Working /\ Working' = Working \ {r}
    BY <1>0, <1>8 DEF ReleaseCpu, Working
  <2>2. \/ pc' = pc
        \/ \E h \in Requests : pc[h] = "waiting" /\ pc' = [pc EXCEPT ![h] = "granted"]
    BY <1>0, <1>8, ReleaseVerifyControl DEF ReleaseCpu
  <2>3. reply' = reply
    BY <1>8 DEF ReleaseCpu
  <2>4. Admitted' = Admitted /\ Outcome' = Outcome
    BY <1>0, <2>2, <2>3 DEF Admitted, Outcome
  <2> QED
    BY <1>8, <2>1, <2>4 DEF ReleaseCpu, Working, Outcome, Promise!EndWork
<1>9. ASSUME NEW r \in Requests, BeginPersist(r) PROVE UNCHANGED Promise!vars
  <2>1. external[r] = "idle" /\ store_cts[r] = "idle"
    BY <1>0, <1>9 DEF BeginPersist, Stages
  <2>2. Admitted' = Admitted /\ Outcome' = Outcome /\ Stored' = Stored
    BY <1>0, <1>9, <2>1 DEF BeginPersist, Admitted, Outcome, Stored, IInv, Branch
  <2> QED
    BY <1>9, <2>2 DEF BeginPersist, Stored, Outcome, Promise!vars
<1>10. ASSUME NEW r \in Requests, JoinFailed(r)
       PROVE  \E what \in {"BadRequest", "InternalError"} : Promise!Leave(r, what)
  <2>1. PICK what \in {"BadRequest", "InternalError"} : Answer(r, what)
    BY <1>10 DEF JoinFailed
  <2> QED BY <1>3, <1>10, <2>1 DEF JoinFailed
<1>11. ASSUME NEW r \in Requests, FinishExternal(r) \/ FinishStoreCts(r)
       PROVE  Promise!Store(r) \/ UNCHANGED Promise!vars
  <2>1. /\ r \in Admitted /\ r \in Proved /\ r \notin Working
        /\ Stored' = Stored \union {r} \/ Stored' = Stored
    <3>1. pc[r] = "persisting" /\ task[r] = "done" /\ result[r] = "verified"
      BY <1>0, <1>11 DEF FinishExternal, FinishStoreCts, Stages
    <3>2. r \in Admitted /\ r \in Proved /\ r \notin Working
      BY <3>1 DEF Admitted, Proved, Working
    <3>3. Stored' = Stored \union {r} \/ Stored' = Stored
      BY <1>0, <1>11 DEF FinishExternal, FinishStoreCts, Stored, Branch
    <3> QED BY <3>2, <3>3
  <2>2. UNCHANGED <<pc, task, result, reply>>
    BY <1>11 DEF FinishExternal, FinishStoreCts
  <2>3. /\ Admitted' = Admitted /\ Working' = Working
        /\ Proved' = Proved /\ Outcome' = Outcome
    BY <2>2 DEF Admitted, Working, Proved, Outcome
  <2> QED
    BY <2>1, <2>3 DEF Working, Proved, Stored, Outcome, Promise!Store, Promise!vars
<1>12. ASSUME NEW r \in Requests, FinishPersist(r)
       PROVE  \E what \in {"Success", "PersistFailed"} : Promise!Leave(r, what)
  <2>1. /\ pc[r] = "persisting" /\ task[r] = "done" /\ result[r] = "verified"
        /\ UNCHANGED <<task, result, external, store_cts>>
    BY <1>0, <1>12 DEF FinishPersist, Stages
  <2>2. PICK what \in {"Success", "PersistFailed"} :
          /\ Answer(r, what)
          /\ what = "Success" => external[r] = "ok" /\ store_cts[r] = "ok"
    BY <1>12 DEF FinishPersist
  <2> QED BY <1>3, <2>1, <2>2
<1>13. ASSUME NEW r \in Requests, Disconnect(r) PROVE Promise!Leave(r, "Gone")
  <2>1. /\ pc[r] \in Awaiting
        /\ UNCHANGED <<task, result, external, store_cts, reply>>
    BY <1>13 DEF Disconnect, DropWaiter, DropGranted, DropLater
  <2>2. \/ pc' = Gone(r)
        \/ \E h \in Requests : pc[h] = "waiting" /\ h # r
                               /\ pc' = [Gone(r) EXCEPT ![h] = "granted"]
    <3>1. CASE DropGranted(r)
      <4>1. Gone(r) \in [Requests -> {"new"} \union Holding \union Finished]
        BY <1>0 DEF Gone
      <4>2. pc[r] = "granted"
        BY <3>1 DEF DropGranted
      <4> QED BY <1>0, <3>1, <4>1, <4>2, ReleaseVerifyControl DEF DropGranted
    <3>2. CASE DropWaiter(r) \/ DropLater(r)
      BY <3>2 DEF DropWaiter, DropLater
    <3> QED BY <1>13, <3>1, <3>2 DEF Disconnect
  <2>3. r \in Admitted /\ Admitted' = Admitted \ {r}
    BY <1>0, <2>1, <2>2 DEF Admitted, Gone
  <2>4. Outcome' = [Outcome EXCEPT ![r] = "Gone"]
    BY <1>0, <2>1, <2>2 DEF Outcome, Gone
  <2> QED BY <2>1, <2>3, <2>4 DEF Outcome, Promise!Leave
<1>14. CASE UNCHANGED vars
  BY <1>14 DEF vars, Promise!vars, Admitted
<1> HIDE DEF TypeInv, Holding, Awaiting, Finished, OnCpu, Results, Replies
<1> QED
  BY <1>1, <1>2, <1>4, <1>5, <1>6, <1>7, <1>8, <1>9, <1>10, <1>11, <1>12,
     <1>13, <1>14
     DEF Next, HandlerStep, TaskStep, Idle, Promise!Next, Promise!Refusals

\* The handler, its semaphores, its blocking tasks and its disconnects together
\* implement the service BoundedService describes (verify_and_sign_batch).
THEOREM EndpointKeepsPromise == Spec => KeepsPromise
<1>1. Init => Promise!Init
  BY PromiseInit
<1>2. IInv /\ [Next]_vars => [Promise!Next]_(Promise!vars)
  BY StepRefines
<1> QED BY <1>1, <1>2, Invariant, PTL DEF Spec, KeepsPromise, Promise!Spec
=============================================================================
