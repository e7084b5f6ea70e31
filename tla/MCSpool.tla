------------------------------ MODULE MCSpool ------------------------------
(* Small instances of Spool for TLC. *)
EXTENDS SpoolInv, TLC

\* tables are interchangeable: nothing orders or names them
TableSymmetry == Permutations(Tables)
=============================================================================
