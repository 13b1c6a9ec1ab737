------------------------------- MODULE MCTunnel -------------------------------
(***************************************************************************)
(* Constant values for the runs of TunnelReconciler: a tunnel outside      *)
(* weft-system, one server beside it and one in weft-system.               *)
(***************************************************************************)
EXTENDS TunnelLiveness

CONSTANTS t1, s1, s2, n1, n2, c1, c2, app

InApp == [t \in Tunnels |-> app]
OneSystem == [s \in Servers |-> IF s = s2 THEN System ELSE app]
OwnName == [s \in Servers |-> IF s = s1 THEN n1 ELSE n2]
===============================================================================
