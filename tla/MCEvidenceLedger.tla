-------------------------- MODULE MCEvidenceLedger --------------------------
(* Model values and symmetry for checking EvidenceLedger. *)
EXTENDS EvidenceLedger, TLC

Symmetric == Permutations(Gates) \cup Permutations(Kinds)
===============================================================================
