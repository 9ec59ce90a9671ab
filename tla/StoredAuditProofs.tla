------------------------- MODULE StoredAuditProofs --------------------------
(***************************************************************************)
(* For every number of requests, lists and ciphertexts, shared or not:     *)
(* what rewriting can and cannot take away from a stored ciphertext.       *)
(***************************************************************************)
EXTENDS StoredAudit, TLAPS

-----------------------------------------------------------------------------
(* The strengthening.                                                      *)

\* A record that a request wrote.
WrittenByRequest(record) ==
  \E r \in Requests : \E k \in 1..Len(CtsOf[ListOf[r]]) :
    phase[r] # "new" /\ record = Input(r, k)

\* Every object under the newest prefix was written by a request, and every
\* object that a request wrote is still there, though its record may be the one
\* of another request.
Written ==
  /\ phase \in [Requests -> {"new", "storing", "ok", "failed"}]
  /\ landed \in [Requests -> SUBSET Nat]
  /\ DOMAIN inputs = Prefixes /\ DOMAIN proofs = Prefixes
  /\ inputs[Older] = OldInputs
  /\ \E format \in {"bincode", "safe"} : proofs[Older] = OldProofs(format)
  /\ \A i \in inputs[Newest] : WrittenByRequest(i)
  /\ \A o \in proofs[Newest] : \E r \in Requests : o = StoredProof(r)
  /\ \A r \in Requests :
       /\ phase[r] = "ok" => landed[r] = Objects(r)
       /\ Proof \in landed[r] => StoredProof(r) \in proofs[Newest]
       /\ \A k \in landed[r] \ {Proof} :
            \E i \in inputs[Newest] : i.ct = Input(r, k).ct

\* What an audit has in hand.
OnTrack ==
  /\ audit.stage = "ciphertext" =>
       /\ audit.prefix \in Prefixes
       /\ audit.answered => Answered(audit.ct)
       /\ audit.answered /\ audit.prefix = Older => audit.erred
  /\ audit.stage = "proof" =>
       /\ audit.prefix \in Prefixes
       /\ audit.prefix = Newest => WrittenByRequest(audit.record)
       /\ audit.prefix = Older => audit.record \in OldInputs
  /\ audit.stage = "verify" => HoldsRecord(audit.proof.list, audit.record)

AInv == Written /\ OnTrack

-----------------------------------------------------------------------------
(* Lists and their ciphertexts.                                            *)

\* The ciphertexts of a list by their places.
LEMMA Places ==
  \A p \in Lists :
    /\ Len(CtsOf[p]) \in Nat
    /\ DOMAIN CtsOf[p] = 1..Len(CtsOf[p])
    /\ Range(CtsOf[p]) = {CtsOf[p][k] : k \in 1..Len(CtsOf[p])}
BY ListsAssumption DEF Range

\* A ciphertext that a request stored is under the newest prefix.
LEMMA AnsweredIsThere ==
  ASSUME Written, NEW ct, Answered(ct)
  PROVE  \E i \in inputs[Newest] : i.ct = ct
<1>1. PICK r \in Requests : phase[r] = "ok" /\ ct \in Range(CtsOf[ListOf[r]])
  BY DEF Answered
<1>2. ListOf[r] \in Lists
  BY ListsAssumption
<1>3. PICK k \in 1..Len(CtsOf[ListOf[r]]) : ct = CtsOf[ListOf[r]][k]
  BY <1>1, <1>2, Places
<1>4. k \in landed[r] \ {Proof}
  BY <1>1, <1>2, <1>3, Places DEF Written, Objects, Proof
<1>5. Input(r, k).ct = ct
  BY <1>3 DEF Input
<1> QED
  BY <1>4, <1>5 DEF Written

\* The proof of a list that a request was answered for is there, so a record whose
\* proof is not was written by a request whose list nobody was answered for.
LEMMA MissingProofSupersedes ==
  ASSUME Written, NEW record, WrittenByRequest(record),
         \A o \in proofs[Newest] : o.id # record.proof_id
  PROVE  Superseding(record)
<1>1. PICK q \in Requests : /\ phase[q] # "new"
                           /\ \E j \in 1..Len(CtsOf[ListOf[q]]) : record = Input(q, j)
  BY DEF WrittenByRequest
<1>2. record.proof_id = ProofId(q)
  BY <1>1 DEF Input
<1>3. ASSUME NEW r \in Requests, phase[r] = "ok", ListOf[r] = ListOf[q]
      PROVE  FALSE
  <2>1. StoredProof(r) \in proofs[Newest]
    BY <1>3 DEF Written, Objects
  <2>2. StoredProof(r).id = record.proof_id
    BY <1>2, <1>3 DEF StoredProof, ProofId
  <2> QED
    BY <2>1, <2>2
<1>4. phase[q] \in {"storing", "failed"}
  BY <1>1, <1>3 DEF Written
<1> QED
  BY <1>2, <1>3, <1>4 DEF Superseding

\* What an earlier version left is complete.
LEMMA OldRecordNamesProof ==
  ASSUME Written, NEW record \in OldInputs
  PROVE  /\ \E o \in proofs[Older] : o.id = record.proof_id
         /\ \A o \in proofs[Older] : o.id = record.proof_id => HoldsRecord(o.list, record)
<1>1. PICK p \in OldLists : \E j \in 1..Len(CtsOf[p]) :
        record = [ct |-> CtsOf[p][j], proof_id |-> p, ct_index |-> j]
  BY DEF OldInputs
<1>2. PICK k \in 1..Len(CtsOf[p]) :
        record = [ct |-> CtsOf[p][k], proof_id |-> p, ct_index |-> k]
  BY <1>1
<1>3. k \in DOMAIN CtsOf[p]
  BY ListsAssumption, Places
<1>4. PICK format : proofs[Older] = OldProofs(format)
  BY DEF Written
<1>5. \E o \in proofs[Older] : o.id = record.proof_id
  <2>1. [id |-> p, list |-> p, format |-> format] \in proofs[Older]
    BY <1>4 DEF OldProofs
  <2> QED
    BY <1>2, <2>1
<1>6. \A o \in proofs[Older] : o.id = record.proof_id => o.list = p
  BY <1>2, <1>4 DEF OldProofs
<1> QED
  BY <1>2, <1>3, <1>5, <1>6 DEF HoldsRecord

-----------------------------------------------------------------------------
(* The invariant is inductive.                                             *)

\* Nothing is written and no audit runs.
LEMMA AInvInit == Init => AInv
<1> SUFFICES ASSUME Init PROVE AInv
  OBVIOUS
<1>1. Newest # Older /\ Newest \in Prefixes /\ Older \in Prefixes
  BY DEF Newest, Older, Prefixes
<1>2. Written
  BY <1>1 DEF Init, Written
<1> QED
  BY <1>2 DEF Init, AInv, OnTrack, NoAudit

\* A step of a writer keeps what is written and what an audit has in hand.
LEMMA WriterStep ==
  ASSUME AInv, NEW r \in Requests,
         \/ StoreProofAndCts(r) \/ AnswerOk(r) \/ AnswerError(r)
         \/ \E o \in Objects(r) : Land(r, o)
  PROVE  AInv'
<1> USE DEF AInv
<1>0. Newest # Older /\ Newest \in Prefixes
  BY DEF Newest, Older, Prefixes
<1>1. \A s \in Requests :
        /\ phase[s] = "ok" => phase'[s] = "ok"
        /\ phase[s] # "new" => phase'[s] # "new"
  BY DEF StoreProofAndCts, AnswerOk, AnswerError, Land, Written
<1>2. \A ct : Answered(ct) => Answered(ct)'
  BY <1>1 DEF Answered
<1>3. \A record : WrittenByRequest(record) => WrittenByRequest(record)'
  BY <1>1 DEF WrittenByRequest, Input, ProofId
<1>4. Written'
  <2>1. CASE StoreProofAndCts(r)
    BY <2>1, <1>3 DEF Written, StoreProofAndCts
  <2>2. CASE AnswerOk(r)
    BY <2>2, <1>3 DEF Written, AnswerOk
  <2>3. CASE AnswerError(r)
    BY <2>3, <1>3 DEF Written, AnswerError
  <2>4. ASSUME NEW o \in Objects(r), Land(r, o)
        PROVE  Written'
    <3>1. ListOf[r] \in Lists
      BY ListsAssumption
    <3>2. Len(CtsOf[ListOf[r]]) \in Nat
      BY <3>1, Places
    <3>3. landed' = [landed EXCEPT ![r] = @ \union {o}] /\ phase' = phase
      BY <2>4 DEF Land
    <3>4. o \in Nat
      BY <3>2 DEF Objects, Proof
    <3>5. landed' \in [Requests -> SUBSET Nat]
      BY <3>3, <3>4 DEF Written
    <3>6. \A s \in Requests : phase'[s] = "ok" => landed'[s] = Objects(s)
      BY <3>3 DEF Written
    <3>7. CASE o = Proof
      <4>1. /\ proofs' = [proofs EXCEPT ![Newest] = @ \union {StoredProof(r)}]
            /\ inputs' = inputs
        BY <2>4, <3>7 DEF Land
      <4>2. DOMAIN proofs' = Prefixes
        BY <4>1 DEF Written
      <4>3. proofs'[Newest] = proofs[Newest] \union {StoredProof(r)}
        BY <4>1, <1>0 DEF Written
      <4>4. \A s \in Requests : Proof \in landed'[s] => StoredProof(s) \in proofs'[Newest]
        BY <3>3, <4>3 DEF Written
      <4>5. \A s \in Requests : \A k \in landed'[s] \ {Proof} :
              \E i \in inputs'[Newest] : i.ct = Input(s, k).ct
        BY <3>3, <3>7, <4>1 DEF Written
      <4>6. \A x \in proofs'[Newest] : \E s \in Requests : x = StoredProof(s)
        BY <4>3 DEF Written
      <4>7. proofs'[Older] = proofs[Older]
        BY <4>1, <1>0 DEF Written
      <4>8. \A i \in inputs'[Newest] : WrittenByRequest(i)'
        BY <1>3, <4>1 DEF Written
      <4> QED
        BY <3>3, <3>5, <3>6, <4>1, <4>2, <4>4, <4>5, <4>6, <4>7, <4>8 DEF Written
    <3>8. CASE o # Proof
      <4>1. /\ inputs' = [inputs EXCEPT ![Newest] =
                 {i \in @ : i.ct # Input(r, o).ct} \union {Input(r, o)}]
            /\ proofs' = proofs
        BY <2>4, <3>8 DEF Land
      <4>2. o \in 1..Len(CtsOf[ListOf[r]])
        BY <3>8 DEF Objects
      <4>3. DOMAIN inputs' = Prefixes /\ inputs'[Older] = inputs[Older]
        BY <4>1, <1>0 DEF Written
      <4>4. inputs'[Newest] =
              {i \in inputs[Newest] : i.ct # Input(r, o).ct} \union {Input(r, o)}
        BY <4>1, <1>0 DEF Written
      <4>5. \A i \in inputs'[Newest] : WrittenByRequest(i)'
        BY <2>4, <4>2, <4>4, <3>3 DEF Written, WrittenByRequest, Land
      <4>6. \A s \in Requests : \A k \in landed'[s] \ {Proof} :
              \E i \in inputs'[Newest] : i.ct = Input(s, k).ct
        <5> SUFFICES ASSUME NEW s \in Requests, NEW k \in landed'[s] \ {Proof}
                     PROVE  \E i \in inputs'[Newest] : i.ct = Input(s, k).ct
          OBVIOUS
        <5>1. CASE Input(s, k).ct = Input(r, o).ct
          BY <4>4, <5>1
        <5>2. CASE Input(s, k).ct # Input(r, o).ct
          <6>1. k \in landed[s] \ {Proof}
            BY <3>3, <5>2 DEF Written
          <6>2. PICK i \in inputs[Newest] : i.ct = Input(s, k).ct
            BY <6>1 DEF Written
          <6> QED
            BY <4>4, <5>2, <6>2
        <5> QED
          BY <5>1, <5>2
      <4>7. \A s \in Requests : Proof \in landed'[s] => StoredProof(s) \in proofs'[Newest]
        BY <3>3, <3>8, <4>1 DEF Written
      <4> QED
        BY <3>3, <3>5, <3>6, <4>1, <4>3, <4>5, <4>6, <4>7 DEF Written
    <3> QED
      BY <3>7, <3>8
  <2> QED
    BY <2>1, <2>2, <2>3, <2>4
<1>5. audit' = audit
  BY DEF StoreProofAndCts, AnswerOk, AnswerError, Land
<1>6. OnTrack'
  BY <1>2, <1>3, <1>5 DEF OnTrack
<1> QED
  BY <1>4, <1>6

\* A step of an audit reads, and what it is looking for is there.
LEMMA AuditStep ==
  ASSUME AInv,
         \/ \E ct \in Ciphertexts : StartAudit(ct)
         \/ FindCiphertext \/ MissCiphertext \/ FetchProof \/ Verify
  PROVE  AInv' /\ FailsAllowed
<1> USE DEF AInv
<1>0. Newest # Older /\ Newest \in Prefixes /\ Older \in Prefixes
  BY DEF Newest, Older, Prefixes
<1>1. UNCHANGED <<inputs, proofs, phase, landed>>
  BY DEF StartAudit, FindCiphertext, MissCiphertext, FetchProof, Verify
<1>2. Written'
  BY <1>1 DEF Written, WrittenByRequest
<1>3. /\ \A ct : Answered(ct)' <=> Answered(ct)
      /\ \A record : WrittenByRequest(record)' <=> WrittenByRequest(record)
  BY <1>1 DEF Answered, WrittenByRequest
<1>4. ASSUME NEW ct \in Ciphertexts, StartAudit(ct)
      PROVE  OnTrack' /\ FailsAllowed
  BY <1>0, <1>3, <1>4 DEF StartAudit, OnTrack, FailsAllowed
<1>5. CASE FindCiphertext
  <2>1. PICK i \in inputs[audit.prefix] :
          /\ i.ct = audit.ct
          /\ audit' = [stage |-> "proof", answered |-> audit.answered,
                       prefix |-> audit.prefix, record |-> i]
    BY <1>5 DEF FindCiphertext
  <2>2. audit.prefix \in Prefixes
    BY <1>5 DEF FindCiphertext, OnTrack
  <2>3. /\ audit.prefix = Newest => WrittenByRequest(i)
        /\ audit.prefix = Older => i \in OldInputs
    BY <2>1 DEF Written
  <2>4. OnTrack'
    BY <2>1, <2>2, <2>3, <1>3 DEF OnTrack
  <2> QED
    BY <1>2, <2>1, <2>4 DEF FailsAllowed
<1>6. CASE MissCiphertext
  <2>1. PICK erred \in BOOLEAN :
          /\ erred \/ \A i \in inputs[audit.prefix] : i.ct # audit.ct
          /\ IF audit.prefix = Newest
               THEN audit' = [stage |-> "ciphertext", ct |-> audit.ct,
                              answered |-> audit.answered, prefix |-> Older, erred |-> erred]
               ELSE AuditFails(IF erred \/ audit.erred THEN "unreachable" ELSE "no ciphertext")
    BY <1>6 DEF MissCiphertext
  <2>2. audit.stage = "ciphertext" /\ audit.prefix \in Prefixes
    BY <1>6 DEF MissCiphertext, OnTrack
  <2>3. CASE audit.prefix = Newest
    <3>1. audit.answered => Answered(audit.ct)
      BY <2>2 DEF OnTrack
    <3>2. audit.answered => erred
      BY <2>1, <2>3, <3>1, AnsweredIsThere
    <3>3. /\ audit'.stage = "ciphertext" /\ audit'.prefix = Older
          /\ audit'.ct = audit.ct /\ audit'.answered = audit.answered
          /\ audit'.erred = erred
      BY <2>1, <2>3
    <3>4. OnTrack'
      BY <1>0, <1>3, <3>1, <3>2, <3>3 DEF OnTrack
    <3> QED
      BY <1>2, <3>3, <3>4 DEF FailsAllowed
  <2>4. CASE audit.prefix = Older
    <3>1. PICK why :
            /\ AuditFails(why)
            /\ audit.answered => why = "unreachable"
      <4>1. audit.answered => audit.erred
        BY <2>2, <2>4 DEF OnTrack
      <4>2. AuditFails(IF erred \/ audit.erred THEN "unreachable" ELSE "no ciphertext")
        BY <1>0, <2>1, <2>4
      <4> QED
        BY <4>1, <4>2
    <3>2. /\ audit'.stage = "failed" /\ audit'.answered = audit.answered
          /\ audit'.why = why
      BY <3>1 DEF AuditFails
    <3> QED
      BY <1>2, <3>1, <3>2 DEF OnTrack, FailsAllowed
  <2> QED
    BY <2>2, <2>3, <2>4 DEF Prefixes
<1>7. CASE FetchProof
  <2>1. audit.stage = "proof" /\ audit.prefix \in Prefixes
    BY <1>7 DEF FetchProof, OnTrack
  <2>2. /\ audit.prefix = Newest => WrittenByRequest(audit.record)
        /\ audit.prefix = Older => audit.record \in OldInputs
    BY <2>1 DEF OnTrack
  <2>3. ASSUME NEW o \in proofs[audit.prefix],
               o.id = audit.record.proof_id,
               audit' = [stage |-> "verify", answered |-> audit.answered,
                         record |-> audit.record, proof |-> o]
        PROVE  OnTrack' /\ FailsAllowed
    <3>1. HoldsRecord(o.list, audit.record)
      <4>1. CASE audit.prefix = Newest
        <5>1. PICK r \in Requests :
                \E j \in 1..Len(CtsOf[ListOf[r]]) : audit.record = Input(r, j)
          BY <2>2, <4>1 DEF WrittenByRequest
        <5>2. PICK k \in 1..Len(CtsOf[ListOf[r]]) : audit.record = Input(r, k)
          BY <5>1
        <5>3. PICK s \in Requests : o = StoredProof(s)
          BY <2>3, <4>1 DEF Written
        <5>4. o.list = ListOf[r]
          BY <2>3, <5>2, <5>3 DEF Input, StoredProof, ProofId
        <5>5. k \in DOMAIN CtsOf[ListOf[r]]
          BY ListsAssumption, Places
        <5> QED
          BY <5>2, <5>4, <5>5 DEF Input, HoldsRecord
      <4>2. CASE audit.prefix = Older
        BY <2>2, <2>3, <4>2, OldRecordNamesProof
      <4> QED
        BY <2>1, <4>1, <4>2 DEF Prefixes
    <3> QED
      BY <2>3, <3>1 DEF OnTrack, FailsAllowed
  <2>4. ASSUME \A o \in proofs[audit.prefix] : o.id # audit.record.proof_id,
               AuditFails("no proof")
        PROVE  OnTrack' /\ FailsAllowed
    <3>1. audit.prefix = Newest
      BY <2>1, <2>2, <2>4, OldRecordNamesProof DEF Prefixes
    <3>2. Superseding(audit.record)
      BY <2>2, <2>4, <3>1, MissingProofSupersedes
    <3> QED
      BY <2>4, <3>2 DEF OnTrack, FailsAllowed, AuditFails
  <2>5. CASE AuditFails("unreachable")
    <3>1. audit'.stage = "failed" /\ audit'.why = "unreachable"
      BY <2>5 DEF AuditFails
    <3> QED
      BY <1>2, <3>1 DEF OnTrack, FailsAllowed
  <2> QED
    BY <1>2, <1>7, <2>3, <2>4, <2>5 DEF FetchProof
<1>8. CASE Verify
  <2>1. HoldsRecord(audit.proof.list, audit.record)
    BY <1>8 DEF Verify, OnTrack
  <2>2. CASE AuditFails("format")
    BY <1>2, <2>2 DEF OnTrack, FailsAllowed, AuditFails
  <2>3. CASE audit' = [stage |-> "confirmed", answered |-> audit.answered]
    BY <1>2, <2>3 DEF OnTrack, FailsAllowed
  <2> QED
    BY <1>8, <2>1, <2>2, <2>3 DEF Verify
<1> QED
  BY <1>2, <1>4, <1>5, <1>6, <1>7, <1>8

\* Every step keeps the invariant, and an audit fails only as it may.
LEMMA AInvNext == AInv /\ [Next]_vars => AInv' /\ [FailsAllowed]_vars
<1> SUFFICES ASSUME AInv, [Next]_vars PROVE AInv' /\ [FailsAllowed]_vars
  OBVIOUS
<1>1. CASE UNCHANGED vars
  BY <1>1 DEF vars, AInv, Written, WrittenByRequest, OnTrack, Answered
<1>2. ASSUME NEW r \in Requests,
             \/ StoreProofAndCts(r) \/ AnswerOk(r) \/ AnswerError(r)
             \/ \E o \in Objects(r) : Land(r, o)
      PROVE  AInv' /\ FailsAllowed
  <2>1. AInv'
    BY <1>2, WriterStep
  <2>2. audit' = audit
    BY <1>2 DEF StoreProofAndCts, AnswerOk, AnswerError, Land
  <2> QED
    BY <2>1, <2>2 DEF AInv, OnTrack, FailsAllowed
<1> QED
  BY <1>1, <1>2, AuditStep DEF Next

\* For every number of requests, whose lists share ciphertexts or not, in every
\* order of their writes: an audit of an answered ciphertext finds its record, and
\* its proof unless an unfinished call with another list overwrote the record
\* (store_proof_and_cts, store_ct_with_retry).
THEOREM AnsweredStaysComplete == Spec => AnsweredIsComplete
BY AInvInit, AInvNext, PTL DEF Spec, AnsweredIsComplete
=============================================================================
