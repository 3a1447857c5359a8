--------------------------- MODULE MCEntityTracker ---------------------------
(* Small instances of EntityTracker.  Ids are interchangeable: nothing in   *)
(* the code compares two of them but for equality.                         *)
EXTENDS EntityTracker, TLC

IdSymmetry == Permutations(Id)
=============================================================================
