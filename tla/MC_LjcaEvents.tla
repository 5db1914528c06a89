--------------------------- MODULE MC_LjcaEvents ---------------------------
(* Model-checking instance of LjcaEvents: two children sharing one stub.  *)
EXTENDS LjcaEvents, TLC
MC_Symmetry == Permutations(Ids)
=============================================================================
