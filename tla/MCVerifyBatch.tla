--------------------------- MODULE MCVerifyBatch ----------------------------
(* The instances of VerifyBatch that TLC checks.                           *)
EXTENDS VerifyBatch, TLC

\* The requests are interchangeable: nothing orders them but their arrival.
Symmetry == Permutations(Requests)
=============================================================================
