------------------------------ MODULE MCGateway ------------------------------
(***************************************************************************)
(* Constant values for the runs of GatewayReconciler: an HTTPS listener    *)
(* for *.x and a TCP listener, which has no hostname; an HTTPRoute for a.x *)
(* and a TCPRoute, whose parentRefs name the second listener or none; one  *)
(* path and backend, or a second path and backend, for the first as well.  *)
(***************************************************************************)
EXTENDS GatewayLiveness

CONSTANTS g1, l1, l2, r1, r2, ns1, a1, a2, p1, p2, v1, v2

OneNs == [g \in Gateways |-> ns1]
OwnName == [g \in Gateways |-> g]
OneListenerHost == [l \in Listeners |-> IF l = l1 THEN <<"*", "x">> ELSE NoOne]
TwoProtocols == [l \in Listeners |-> IF l = l1 THEN "HTTPS" ELSE "TCP"]
TwoKinds == [r \in Routes |-> IF r = r1 THEN "HTTP" ELSE "TCP"]
SameNs == [r \in Routes |-> ns1]
RouteNames == [r \in Routes |-> r]
OneHost == [r \in Routes |-> IF r = r1 THEN {<<"a", "x">>} ELSE {}]
Refs == {[name |-> g1, ns |-> NoOne, section |-> NoOne],
         [name |-> g1, ns |-> NoOne, section |-> l2]}
OneOrTwoBackends == {{<<p1, v1>>}, {<<p1, v1>>, <<p1, v2>>, <<p2, v2>>}}
==============================================================================
