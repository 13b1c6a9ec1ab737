--------------------------- MODULE GatewayLiveness ---------------------------
(***************************************************************************)
(* The Gateway controller started beside objects that already exist, with  *)
(* a bounded number of further changes, failing calls and restarts.        *)
(***************************************************************************)
EXTENDS GatewayReconciler

CONSTANT Changes  \* bound on what happens to the controller from outside

ASSUME ChangesAssumption == Changes \in Nat

VARIABLE changes  \* how many of them are left

lvars == <<vars, changes>>

(* The operator starts for the first time, with every Gateway there is on  *)
(* the queue: Gateways with all listeners, routes with all parentRefs, an  *)
(* AquaductTaaS, or none of each.                                          *)
LiveInit ==
    /\ gw \in [Gateways -> {AbsentGateway, [AbsentGateway EXCEPT !.phase = "live",
                                                                 !.listeners = Listeners]}]
    /\ route \in [Routes -> [refs: {{}, ParentRefs}, rules: RuleSets]]
    /\ class = "ours"
    /\ taas \in {S \in SUBSET TaaSes : Cardinality(S) <= 1}
    /\ tun = [g \in Gateways |-> [k \in Keys |-> NoTunnel]]
    /\ rec = [g \in Gateways |-> [h \in Hosts |-> NoRecord]]
    /\ queue = {g \in Gateways : gw[g].phase = "live"}
    /\ pass = Idle
    /\ skipped = {}
    /\ changes = Changes

LiveNext ==
    \/ /\ Reconcile \/ Others
       /\ UNCHANGED changes
    \/ /\ changes > 0
       /\ Users \/ Faults
       /\ changes' = changes - 1

Steps(A) == A /\ UNCHANGED changes

(* The worker never stops while it has a pass or a request to work on, the *)
(* garbage collector gets to every orphan, and the DNSRecord controller    *)
(* finishes with every record.                                             *)
Fairness ==
    /\ WF_lvars(Steps(Reconcile))
    /\ WF_lvars(Steps(Others))

LiveSpec == LiveInit /\ [][LiveNext]_lvars /\ Fairness

(* The controller comes to rest unless its class is missing: its own       *)
(* writes to the Gateway, the class and the tunnels, events all of them,   *)
(* do not keep it going.  It takes that no tunnel is called for with two   *)
(* backends: a rule with two backendRefs, two rules of a route for one     *)
(* path, or two HTTPRoutes of one name in different namespaces have the    *)
(* tunnel rewritten in turn by every pass, for ever.                       *)
GatewayRests == <>[]OneBackend => <>[](Quiet \/ class = "absent")

(* A Gateway being deleted goes, provided its class is still there.        *)
GatewayGoes ==
    \A g \in Gateways :
        changes = 0 /\ gw[g].phase = "deleting" /\ Managed
            ~> gw[g].phase = "absent"
==============================================================================
