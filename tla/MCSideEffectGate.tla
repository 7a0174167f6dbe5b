--------------------------- MODULE MCSideEffectGate ---------------------------
(* Model values and symmetry for checking SideEffectGate. *)
EXTENDS SideEffectRefinement, TLC

Symmetric == Permutations(Attempts) \cup Permutations(Requests)
===============================================================================
