----------------------------- MODULE MCTrustGate -----------------------------
(***************************************************************************)
(* Model-checking instance of the trust gate.                              *)
(***************************************************************************)
EXTENDS TrustGate

CONSTANTS p1, p2
==============================================================================
