----------------------------- MODULE MCPersist ------------------------------
(* The instances of Persist that TLC checks.                               *)
EXTENDS PersistStep, SequencesExt

\* A batch of at most 30 uploads: every result is read as it comes.
SmallBatch == [o \in Objects |-> {}]

\* A larger one: the results are read in the order of the futures.
LargeBatch ==
  LET futures == SetToSeq(Objects)
  IN  [o \in Objects |->
         {futures[i] : i \in 1..(CHOOSE n \in 1..Len(futures) : futures[n] = o) - 1}]

\* In a small batch the uploads are interchangeable.
Symmetry == Permutations(Objects)
=============================================================================
