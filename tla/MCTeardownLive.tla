---------------------------- MODULE MCTeardownLive ----------------------------
(***************************************************************************)
(* The liveness runs use the constant values of the safety runs.           *)
(***************************************************************************)
EXTENDS TeardownLiveness, MCTeardown
===============================================================================
