---------------------------- MODULE StoredAudit -----------------------------
(***************************************************************************)
(* The bucket between its writer and its reader: persist_cts calls of      *)
(* zk-verifier that share objects (src/storage/storage_manager.rs) and     *)
(* verify-stored-ct, which reads a ciphertext and then the proof its       *)
(* record names (scripts/verify_stored_ct.rs).                             *)
(*                                                                         *)
(* A client that got an error, or none, sends its list again: two calls    *)
(* write the same keys, in any order, and an attempt one of them abandoned *)
(* may land after the other was answered.  A ciphertext may come back in   *)
(* another list too, batched anew: its record is then overwritten by one   *)
(* that names another proof.  How a call decides is module Persist; here   *)
(* it may answer 200 once all of its objects were written (Persist's       *)
(* SuccessIsDurable) and fail at any time.                                 *)
(*                                                                         *)
(* One chain and one security zone: both are part of every key.            *)
(***************************************************************************)
EXTENDS Naturals, Sequences, Functions

CONSTANTS
  Requests,    \* persist_cts calls
  Ciphertexts, \* what lists hold, places counted from 1 (the code counts from 0)
  Lists,       \* packed lists, each with its proof
  ListOf,      \* the list a request was sent with
  CtsOf,       \* the ciphertexts of a list, in its order; lists may share them
  OldLists     \* the lists that an earlier version of the service stored

ASSUME ListsAssumption ==
  /\ CtsOf \in [Lists -> Seq(Ciphertexts)]
  /\ OldLists \subseteq Lists
  /\ ListOf \in [Requests -> Lists]

VARIABLES
  inputs,    \* the ciphertext objects under each prefix
  proofs,    \* the proof objects under each prefix
  phase,     \* where each request is
  landed,    \* the objects it has written, proof or index of a ciphertext
  audit      \* the audit in progress, or the last one

vars == <<inputs, proofs, phase, landed, audit>>

-----------------------------------------------------------------------------
(* The objects of a request.                                               *)

Newest == "cofhe/v2"
Older == "cofhe/v1"
Prefixes == {Newest, Older}

Proof == 0
Objects(r) == {Proof} \union (1..Len(CtsOf[ListOf[r]]))

\* Mutant of ProofId: every request names its proof anew.
ProofIdPerRequest(r) == r

\* calculate_proof_id hashes the bytes of the list: one list has one id.
ProofId(r) == ListOf[r]

\* What the service receives and stores is in safe_serde's format.
Input(r, i) == [ct |-> CtsOf[ListOf[r]][i], proof_id |-> ProofId(r), ct_index |-> i]
StoredProof(r) == [id |-> ProofId(r), list |-> ListOf[r], format |-> "safe"]

\* What an earlier version left behind, in whatever format it used.
OldInputs ==
  UNION {{[ct |-> CtsOf[p][i], proof_id |-> p, ct_index |-> i] :
             i \in 1..Len(CtsOf[p])} : p \in OldLists}
OldProofs(format) == {[id |-> p, list |-> p, format |-> format] : p \in OldLists}

NoAudit == [stage |-> "idle"]

Init ==
  /\ \E format \in {"bincode", "safe"} :
       proofs = [x \in Prefixes |-> IF x = Older THEN OldProofs(format) ELSE {}]
  /\ inputs = [x \in Prefixes |-> IF x = Older THEN OldInputs ELSE {}]
  /\ phase = [r \in Requests |-> "new"]
  /\ landed = [r \in Requests |-> {}]
  /\ audit = NoAudit

-----------------------------------------------------------------------------
(* The writers.                                                            *)

\* The proof verified and the batch is signed: the uploads start.
StoreProofAndCts(r) ==
  /\ phase[r] = "new"
  /\ phase' = [phase EXCEPT ![r] = "storing"]
  /\ UNCHANGED <<inputs, proofs, landed, audit>>

\* An upload of r lands, an upsert: a first attempt, a retry, or one that was
\* abandoned before r was answered.
Land(r, o) ==
  /\ phase[r] # "new"
  /\ landed' = [landed EXCEPT ![r] = @ \union {o}]
  /\ IF o = Proof
       THEN /\ proofs' = [proofs EXCEPT ![Newest] = @ \union {StoredProof(r)}]
            /\ UNCHANGED inputs
       ELSE /\ inputs' = [inputs EXCEPT ![Newest] =
                 {i \in @ : i.ct # Input(r, o).ct} \union {Input(r, o)}]
            /\ UNCHANGED proofs
  /\ UNCHANGED <<phase, audit>>

AnswerOk(r) ==
  /\ phase[r] = "storing"
  /\ landed[r] = Objects(r)
  /\ phase' = [phase EXCEPT ![r] = "ok"]
  /\ UNCHANGED <<inputs, proofs, landed, audit>>

\* An error, or the client has gone.
AnswerError(r) ==
  /\ phase[r] = "storing"
  /\ phase' = [phase EXCEPT ![r] = "failed"]
  /\ UNCHANGED <<inputs, proofs, landed, audit>>

-----------------------------------------------------------------------------
(* verify-stored-ct.                                                       *)

\* A request that was answered 200 stored ct.
Answered(ct) == \E r \in Requests : phase[r] = "ok" /\ ct \in Range(CtsOf[ListOf[r]])

\* The tool reads lists and serializes ciphertexts with bincode.
AuditFormat == "bincode"

\* The verified list holds the recorded ciphertext at the recorded place.
\* StoredProof carries the fields the proof was verified for when it was stored.
HoldsRecord(list, record) ==
  /\ record.ct_index \in DOMAIN CtsOf[list]
  /\ CtsOf[list][record.ct_index] = record.ct

AuditFails(why) == audit' = [stage |-> "failed", answered |-> audit.answered, why |-> why]

\* "answered" remembers what the client had been told when the audit began.
StartAudit(ct) ==
  /\ audit.stage \notin {"ciphertext", "proof", "verify"}
  /\ audit' = [stage |-> "ciphertext", ct |-> ct, answered |-> Answered(ct),
               prefix |-> Newest, erred |-> FALSE]
  /\ UNCHANGED <<inputs, proofs, phase, landed>>

\* fetch_ciphertext finds the ciphertext under the prefix it is at.
FindCiphertext ==
  /\ audit.stage = "ciphertext"
  /\ \E i \in inputs[audit.prefix] :
       /\ i.ct = audit.ct
       /\ audit' = [stage |-> "proof", answered |-> audit.answered,
                    prefix |-> audit.prefix, record |-> i]
  /\ UNCHANGED <<inputs, proofs, phase, landed>>

\* It does not, or the read fails: on to the older prefix, and from there to the
\* error.
MissCiphertext ==
  /\ audit.stage = "ciphertext"
  /\ \E erred \in BOOLEAN :
       /\ erred \/ \A i \in inputs[audit.prefix] : i.ct # audit.ct
       /\ IF audit.prefix = Newest
            THEN audit' = [stage |-> "ciphertext", ct |-> audit.ct,
                           answered |-> audit.answered, prefix |-> Older, erred |-> erred]
            ELSE AuditFails(IF erred \/ audit.erred THEN "unreachable" ELSE "no ciphertext")
  /\ UNCHANGED <<inputs, proofs, phase, landed>>

\* fetch_proof reads the proof that the record names, next to the ciphertext.
FetchProof ==
  /\ audit.stage = "proof"
  /\ \/ \E o \in proofs[audit.prefix] :
          /\ o.id = audit.record.proof_id
          /\ audit' = [stage |-> "verify", answered |-> audit.answered,
                       record |-> audit.record, proof |-> o]
     \/ /\ \A o \in proofs[audit.prefix] : o.id # audit.record.proof_id
        /\ AuditFails("no proof")
     \/ AuditFails("unreachable")
  /\ UNCHANGED <<inputs, proofs, phase, landed>>

\* The list is deserialized, verified and expanded, and the ciphertext at the
\* recorded index compared.
Verify ==
  /\ audit.stage = "verify"
  /\ IF audit.proof.format # AuditFormat
       THEN AuditFails("format")
       ELSE IF HoldsRecord(audit.proof.list, audit.record)
         THEN audit' = [stage |-> "confirmed", answered |-> audit.answered]
         ELSE AuditFails("mismatch")
  /\ UNCHANGED <<inputs, proofs, phase, landed>>

Next ==
  \/ \E r \in Requests :
       \/ StoreProofAndCts(r) \/ AnswerOk(r) \/ AnswerError(r)
       \/ \E o \in Objects(r) : Land(r, o)
  \/ \E ct \in Ciphertexts : StartAudit(ct)
  \/ FindCiphertext \/ MissCiphertext \/ FetchProof \/ Verify

Spec == Init /\ [][Next]_vars

-----------------------------------------------------------------------------

\* The proof that a record names is one of a call that wrote the record and was not
\* answered 200, of a list that no other call stored either.
Superseding(record) ==
  \E q \in Requests :
    /\ phase[q] \in {"storing", "failed"} /\ ProofId(q) = record.proof_id
    /\ \A r \in Requests : phase[r] = "ok" => ListOf[r] # ListOf[q]

\* A proof in hand holds the recorded ciphertext, and an audit of an answered
\* ciphertext fails for no other reason than these.
FailsAllowed ==
  /\ audit'.stage = "verify" => HoldsRecord(audit'.proof.list, audit'.record)
  /\ audit.stage # "failed" /\ audit'.stage = "failed" /\ audit'.answered =>
       \/ audit'.why \in {"unreachable", "format"}
       \/ audit'.why = "no proof" /\ Superseding(audit.record)

\* An audit of a ciphertext that a client was told is stored finds a record of it
\* and, in the proof the record names, the ciphertext at the recorded place,
\* whoever else writes or rewrites the same objects before or during the audit,
\* the list sent again included.  The proof can be missing in one case only: an
\* unfinished call with another list that holds the ciphertext too has overwritten
\* the record (store_proof_and_cts; store_ct_with_retry: upsert).
AnsweredIsComplete == [][FailsAllowed]_vars

\* "It fetches the ciphertext and proof from GCS, verifies the ZK proof with
\* TFHE.rs, and confirms the hash matches the stored metadata"
\* (zk-verifier/README.md): an audit of a ciphertext that a client was told is
\* stored, and that could read both objects, confirms it.
AuditConfirms ==
  audit.stage = "failed" /\ audit.answered => audit.why = "unreachable"
=============================================================================
