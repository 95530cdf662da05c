--------------------------- MODULE MCCustodyLedger ---------------------------
(* Instances of CustodyLedger for TLC. *)
EXTENDS CustodyLedger, TLC

Symmetry == Permutations(Procs)
=============================================================================
