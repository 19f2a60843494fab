--------------------------- MODULE MCBulkOperation ---------------------------
(* Finite instances of BulkOperation; each cfg gives the constants.        *)
EXTENDS BulkOperation, TLC

(* UIDs are interchangeable: no operator looks inside one. *)
UidSymmetry == Permutations(Uid)
=============================================================================
