------------------------- MODULE MC_LjcaTransport -------------------------
(* Model-checking instance of LjcaTransport: two caller threads, one stub  *)
(* on the list and one type the peripheral may name that is not, two      *)
(* command ids, and a peripheral holding two frames.                      *)
EXTENDS LjcaTransport, TLC

MC_CallKinds == {"noack", "ackbuf"}

MC_Symmetry == Permutations(Callers)
=============================================================================
