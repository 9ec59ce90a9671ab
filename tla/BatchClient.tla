---------------------------- MODULE BatchClient -----------------------------
(***************************************************************************)
(* The smoke-verify-batch tool against the verifier: it proves a list,     *)
(* asks who signs, has the list verified, recomputes the signed digest     *)
(* from the answer and prints the arguments of                             *)
(* TaskManager.batchVerifyInputs, with a verdict on the signature.         *)
(*                                                                         *)
(* Signing is the verifier.  The signer is asked for in one call and signs *)
(* in another; the verifier may restart with another key in between.  The  *)
(* tool hashes what it asked for and what it was answered, the contract    *)
(* what it is called with, each in code of its own.                        *)
(*                                                                         *)
(* The other clients are done when the tool starts: verifications share    *)
(* nothing but the key.                                                    *)
(***************************************************************************)
EXTENDS Signing

CONSTANTS
  Keys,      \* the signing keys; each stands for its address, too
  Nobody     \* what a recovery yields for a signature of something else

ASSUME NobodyAssumption == Nobody \notin Keys

VARIABLES
  key,       \* the verifier's signing key
  tool,      \* where the tool is
  args,      \* its arguments: the fields and the list it proves
  expected,  \* the address /signerAddress answered
  answer,    \* the data of the answer: ciphertexts, signature, recid
  printed    \* what it printed

toolVars == <<tool, args, expected, answer, printed>>
clientVars == <<vars, key, toolVars>>

\* A typed list: every value is pushed as the type of the command line.
Typed == {l \in Lists : l # <<>> /\ \A i \in DOMAIN l : l[i].type = l[1].type}

ClientInit ==
  /\ Init
  /\ key \in Keys
  /\ tool = "out" /\ args = Nothing /\ expected = Nobody
  /\ answer = Nothing /\ printed = Nothing

-----------------------------------------------------------------------------
(* Signatures.                                                             *)

\* A high s is replaced by its negative, which belongs to the point with the
\* other y.  "odd" is the y a signature as it stands belongs to.  The chance of
\* a point whose x wraps is left out.
SignPrehash(raw) ==
  LET odd == raw.odd # raw.high
  IN  [signature |-> [raw EXCEPT !.high = FALSE, !.odd = odd],
       recid |-> IF odd THEN 1 ELSE 0]

\* The address that signed the digest.
Recover(digest, signature, recid) ==
  IF digest = signature.digest /\ recid = (IF signature.odd THEN 1 ELSE 0)
    THEN signature.key ELSE Nobody

-----------------------------------------------------------------------------
(* The contract, as the tool's header describes it.                        *)

InputMessageHash(input, sender, chain, caller) ==
  Keccak(<<input.ctHash, input.utype, input.securityZone>>
           \o sender \o ChainWord(chain) \o caller)

\* batchVerifyInputs, called on a chain by a contract.  Its recovery refuses a
\* high s and any v but 27 and 28.
Accepts(call, caller, chain, signer) ==
  LET hash(input) == InputMessageHash(input, call.sender, chain, caller)
      digest == Keccak([i \in DOMAIN call.inputs |-> hash(call.inputs[i])])
  IN  /\ call.v \in {27, 28} /\ ~ call.signature.high
      /\ Recover(digest, call.signature, call.v - 27) = signer

-----------------------------------------------------------------------------
(* The tool.                                                               *)

\* It checks the two addresses and that there is a value, and proves the list
\* for the fields the verifier will bind it to.
Launch ==
  /\ tool = "out" /\ stage = "idle" /\ Cardinality(signed) < MaxSigned
  /\ \E f \in RequestFields, l \in Typed :
       /\ args' = [fields |-> f, list |-> l]
       /\ tool' = IF IsAddress(f.account) /\ IsAddress(f.contract)
                    THEN "built" ELSE "failed"
  /\ UNCHANGED <<vars, key, expected, answer, printed>>

GetSigner ==
  /\ tool = "built"
  /\ tool' = "asked" /\ expected' = key
  /\ UNCHANGED <<vars, key, args, answer, printed>>

Post ==
  /\ tool = "asked"
  /\ request' = [fields |-> args.fields,
                 proof |-> [named |-> args.fields, list |-> args.list]]
  /\ Receive
  /\ tool' = "posted"
  /\ UNCHANGED <<key, args, expected, answer, printed>>

\* A call fails, or the files of the keys do not load.  The verifier goes on
\* with what it has begun.
ToolFails ==
  /\ tool \in {"built", "asked", "posted"}
  /\ tool' = "failed"
  /\ UNCHANGED <<vars, key, args, expected, answer, printed>>

\* Mutant of PerCtMessageHash: as before the contract was bound.
PerCtMessageHashUnbound(ct, f) ==
  Keccak(<<ct.hash, ct.type, f.zone>> \o f.account \o ChainWord(f.chain))

PerCtMessageHash(ct, f) ==
  Keccak(<<ct.hash, ct.type, f.zone>> \o f.account
           \o ChainWord(f.chain) \o f.contract)

BatchDigest ==
  Keccak([i \in DOMAIN answer.ciphertexts |->
            PerCtMessageHash(answer.ciphertexts[i], args.fields)])

\* The arguments of batchVerifyInputs, and the verdict.
Printout ==
  [sender |-> args.fields.account,
   inputs |-> [i \in DOMAIN answer.ciphertexts |->
                 [ctHash |-> answer.ciphertexts[i].hash,
                  securityZone |-> args.fields.zone,
                  utype |-> answer.ciphertexts[i].type]],
   signature |-> answer.signature,
   v |-> answer.recid + 27,
   valid |-> Recover(BatchDigest, answer.signature, answer.recid) = expected]

\* The arguments are printed whatever the verdict is.
Judge ==
  /\ tool = "answered"
  /\ printed' = Printout
  /\ tool' = IF printed'.valid THEN "done" ELSE "failed"
  /\ UNCHANGED <<vars, key, args, expected, answer>>

-----------------------------------------------------------------------------
(* The verifier.                                                           *)

\* A request of another client.
OtherReceives == tool = "out" /\ Receive /\ UNCHANGED <<key, toolVars>>

Verifies == (VerifyProof \/ Expand) /\ UNCHANGED <<key, toolVars>>

Refuses ==
  /\ RejectContract \/ Refuse \/ ExpandFails \/ SigningFails
  /\ tool' = IF tool = "posted" THEN "failed" ELSE tool
  /\ UNCHANGED <<key, args, expected, answer, printed>>

\* The batch is signed.  What follows, storing it, may still fail.
Answers ==
  /\ SignBatch
  /\ IF tool = "posted"
       THEN \/ \E high, odd \in BOOLEAN :
                 LET raw == [key |-> key, digest |-> Keccak(hashes),
                             high |-> high, odd |-> odd]
                     s == SignPrehash(raw)
                 IN  /\ answer' = [ciphertexts |-> request.proof.list,
                                   signature |-> s.signature, recid |-> s.recid]
                     /\ tool' = "answered"
            \/ tool' = "failed" /\ UNCHANGED answer
       ELSE UNCHANGED <<tool, answer>>
  /\ UNCHANGED <<key, args, expected, printed>>

\* The verifier restarts, maybe with another key; a request it was busy with
\* is lost.
VerifierRestarts ==
  /\ tool \in {"built", "asked", "posted"}
  /\ key' \in Keys
  /\ Return /\ UNCHANGED signed
  /\ tool' = IF tool = "posted" THEN "failed" ELSE tool
  /\ UNCHANGED <<args, expected, answer, printed>>

Over ==
  /\ stage = "idle"
  /\ tool \in {"done", "failed"} \/ Cardinality(signed) = MaxSigned
  /\ UNCHANGED clientVars

ClientNext ==
  \/ Launch \/ GetSigner \/ Post \/ ToolFails \/ Judge
  \/ OtherReceives \/ Verifies \/ Refuses \/ Answers \/ VerifierRestarts
  \/ Over

ClientSpec == ClientInit /\ [][ClientNext]_clientVars

-----------------------------------------------------------------------------

\* "A green run here means the same recovery will succeed in Solidity": the
\* verdict is "valid" exactly if the signer that was announced is the one that
\* signed, and then the contract that trusts that signer accepts what was
\* printed, on the chain and from the contract the run was for and from nowhere
\* else; otherwise nobody accepts it.  Three pieces of code hash the batch, and
\* the signer may have changed on the way (smoke_verify_batch main,
\* per_ct_message_hash; Signer::sign_prehash).
GreenRunIsAccepted ==
  printed # Nothing =>
    /\ printed.valid <=> answer.signature.key = expected
    /\ \A caller \in {c \in Contracts : IsAddress(c)}, chain \in Chains :
         Accepts(printed, caller, chain, expected)
           <=> /\ printed.valid
               /\ caller = args.fields.contract
               /\ chain = args.fields.chain
=============================================================================
