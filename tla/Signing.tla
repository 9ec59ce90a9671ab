------------------------------ MODULE Signing -------------------------------
(***************************************************************************)
(* Verifier::verify_and_sign_batch: from the fields of a request and a     *)
(* packed list to one signature over the batch.                            *)
(*                                                                         *)
(* A zero-knowledge proof is bound to a byte string its author encoded; it *)
(* verifies for a request whose fields encode to the same bytes.  The      *)
(* signature covers a hash of hashes of a second encoding.  Neither has    *)
(* separators or lengths, and the account may have any length, so this     *)
(* module keeps the bytes: what a proof or a signature stands for is what  *)
(* can be read back from them.                                             *)
(*                                                                         *)
(* Verifications share nothing but the key, so one at a time is enough;    *)
(* "signed" remembers them all.                                            *)
(***************************************************************************)
EXTENDS Integers, Sequences, FiniteSets

CONSTANTS
  ADDRESS_LEN,   \* bytes of an EVM address
  CHAIN_PAD,     \* zero bytes in front of the four bytes of a chain id
  Zones, Chains, \* the values of those fields
  Accounts,      \* byte strings an account field may decode to
  Contracts,     \* byte strings a contract field may decode to
  CtHashes,      \* the hashes of the expanded ciphertexts
  Lists,         \* the ciphertext lists of the proofs
  NotHex,        \* a field that does not decode
  MaxSigned      \* bound on the signatures of a behaviour

ASSUME WidthsAssumption ==
  /\ ADDRESS_LEN \in Nat \ {0}
  /\ CHAIN_PAD \in Nat
  /\ ADDRESS_LEN <= CHAIN_PAD

ASSUME FieldsAssumption ==
  /\ Zones \subseteq Nat /\ Chains \subseteq Nat
  /\ Accounts \subseteq Seq(Nat) /\ Contracts \subseteq Seq(Nat)

\* A list holds ciphertexts, each with its type as a number.
ASSUME ListsAssumption == Lists \subseteq Seq([hash : CtHashes, type : Nat])

VARIABLES
  stage,     \* where the verification is
  request,   \* the fields it was called with, and the proof
  hashes,    \* the message hashes computed so far, in submission order
  signed     \* every batch signed

vars == <<stage, request, hashes, signed>>

-----------------------------------------------------------------------------
(* The two encodings.                                                      *)

Zeros == [i \in 1..CHAIN_PAD |-> 0]

ToBeBytes(n) ==
  <<n \div 16777216, (n \div 65536) % 256, (n \div 256) % 256, n % 256>>

\* Mutant of ChainWord: leading zeros are left out.
ChainWordTrimmed(n) == IF n < 256 THEN <<n>> ELSE <<n \div 256, n % 256>>

\* A chain id, right-aligned in a 32-byte word.
ChainWord(n) == Zeros \o ToBeBytes(n)

\* The byte string a proof is bound to.  With an empty contract it is the
\* layout of SDKs that predate the contract field.
Metadata(f) ==
  <<f.zone>> \o f.account \o ChainWord(f.chain) \o f.contract

\* A hash is one opaque word, equal to another only for equal messages.
Keccak(message) == [keccak |-> message]

\* Mutant of CtMessageHash: the consuming contract is not bound.
CtMessageHashWithoutContract(ct, f) ==
  Keccak(<<ct.hash, ct.type, f.zone>> \o f.account \o ChainWord(f.chain))

CtMessageHash(ct, f) ==
  Keccak(<<ct.hash, ct.type, f.zone>> \o f.account \o ChainWord(f.chain)
           \o f.contract)

\* A field that decodes to exactly the bytes of an EVM address.
IsAddress(field) == field # NotHex /\ Len(field) = ADDRESS_LEN

-----------------------------------------------------------------------------
(* The fields of a request, and those a proof's author named.              *)

Texts(set) == set \union {NotHex}

\* An author names any account and a contract; an author with an old SDK names
\* no contract, and the account of a wallet, which is never the zero address.
Named ==
  {f \in [zone : Zones, account : Accounts, chain : Chains,
          contract : Contracts \union {<<>>}] :
     \/ Len(f.contract) = ADDRESS_LEN
     \/ /\ f.contract = <<>>
        /\ Len(f.account) = ADDRESS_LEN
        /\ \E i \in 1..ADDRESS_LEN : f.account[i] # 0}

Proofs == [named : Named, list : Lists]

RequestFields ==
  [zone : Zones, account : Texts(Accounts), chain : Chains, contract : Texts(Contracts)]

Requests == [fields : RequestFields, proof : Proofs]

\* Nothing is being verified.
Nothing == [none |-> TRUE]

Init ==
  /\ stage = "idle"
  /\ request = Nothing
  /\ hashes = <<>>
  /\ signed = {}

\* verify_and_sign_batch returns.
Return == stage' = "idle" /\ request' = Nothing /\ hashes' = <<>>

-----------------------------------------------------------------------------

Receive ==
  /\ stage = "idle"
  /\ Cardinality(signed) < MaxSigned
  /\ \E r \in Requests : request' = r
  /\ stage' = "received"
  /\ UNCHANGED <<hashes, signed>>

\* canonical_contract_address, or the same check before the proof.
RejectContract ==
  /\ stage = "received"
  /\ ~ IsAddress(request.fields.contract)
  /\ Return
  /\ UNCHANGED signed

\* The list does not deserialize, the account does not decode, or the proof
\* does not verify.  A forged proof fails whatever it is bound to.
Refuse ==
  /\ stage = "received"
  /\ IsAddress(request.fields.contract)
  /\ Return
  /\ UNCHANGED signed

VerifyProof ==
  /\ stage = "received"
  /\ IsAddress(request.fields.contract)
  /\ request.fields.account # NotHex
  /\ Metadata(request.fields) = Metadata(request.proof.named)
  /\ stage' = "expanding"
  /\ UNCHANGED <<request, hashes, signed>>

\* The next ciphertext of the list is expanded and its message hashed.
Expand ==
  /\ stage = "expanding"
  /\ Len(hashes) < Len(request.proof.list)
  /\ hashes' = Append(hashes,
                 CtMessageHash(request.proof.list[Len(hashes) + 1], request.fields))
  /\ UNCHANGED <<stage, request, signed>>

\* A ciphertext is missing, of an unsupported type or does not serialize: the
\* whole batch is refused.
ExpandFails ==
  /\ stage = "expanding"
  /\ Len(hashes) < Len(request.proof.list)
  /\ Return
  /\ UNCHANGED signed

\* sign_batch folds the hashes in order.  It never signs an empty batch.
SignBatch ==
  /\ stage = "expanding"
  /\ Len(hashes) = Len(request.proof.list)
  /\ hashes # <<>>
  /\ signed' = signed \union
       {[fields |-> request.fields, proof |-> request.proof, digest |-> Keccak(hashes)]}
  /\ Return

\* The batch is empty, or the key refuses to sign.
SigningFails ==
  /\ stage = "expanding"
  /\ Len(hashes) = Len(request.proof.list)
  /\ Return
  /\ UNCHANGED signed

\* The bound on the signatures is reached.
Done ==
  /\ stage = "idle" /\ Cardinality(signed) = MaxSigned
  /\ UNCHANGED vars

Next ==
  \/ Receive \/ RejectContract \/ Refuse \/ VerifyProof
  \/ Expand \/ ExpandFails \/ SignBatch \/ SigningFails
  \/ Done

Spec == Init /\ [][Next]_vars

-----------------------------------------------------------------------------

\* A batch is signed only for the zone, account, chain and contract that the
\* author of its proof named, and never for a proof that names no contract: the
\* bytes a proof is bound to can be read in one way only, although the account
\* has no fixed length (reconstruct_metadata).
SignsWhatWasNamed ==
  \A s \in signed :
    /\ s.fields = s.proof.named
    /\ IsAddress(s.fields.contract)

\* One digest stands for one batch: the same ciphertexts and types in the same
\* order, all of them, for the same zone, account, chain and contract
\* (ct_message_hash, sign_batch).
DigestNamesBatch ==
  \A s, t \in signed :
    s.digest = t.digest => s.fields = t.fields /\ s.proof.list = t.proof.list
=============================================================================
